---- MODULE Spec2Model ----
(***************************************************************************)
(* Order routing engine of openship (src/.keystone/config.js): the         *)
(* purchase placement pipeline, the order lifecycle mutations, the         *)
(* TrackingDetail hook and the Match uniqueness hook.                      *)
(***************************************************************************)
EXTENDS Integers, Sequences, FiniteSets, TLC

VARIABLES
    cartItems,    \* the CartItem table: a sequence of rows, the row's index is its id
    orderStatus,  \* Order.status of every Order
    log,          \* the adapter calls and status writes of the pipeline run that ran last
    runs,         \* the interleaved pipeline runs: each run's position and locals
    shopItems,    \* the ShopItem table: a sequence of rows, the row's index is its id
    matches,      \* the Match table: a sequence of rows
    matchResult,  \* outcome of the last Match create, upsertMatch or matchOrder
    channelItems, \* the ChannelItem table: a sequence of rows, the row's index is its id
    links,        \* the Link table of the Shop: a sequence of rows
    linkMode,     \* Shop.linkMode
    orderRow,     \* the Order rows: the create flags, the lineItems, Order.error
    matchOutput,  \* the output relation of every Match: its ChannelItems
    matchUpdate,  \* the last update of a Match's input relation and how it ended
    adapterCall,  \* the last call of an adapter executor and how it ended
    webhook,      \* the last webhook given to a handler and what the handler made of it
    pkceStore,    \* the Map pkceStore: key -> PkceStoreEntry
    pkceAliases,  \* the Map pkceAliases: alias -> key
    salesforceOAuthContextStore,    \* the Map of OAuth contexts: key -> context
    salesforceOAuthContextAliases,  \* the Map of context aliases: alias -> key
    now,          \* Date.now()
    oauthCall,    \* the last call of a store or consume function and what it returned
    spent         \* the keys a verifier was consumed by, with the aliases it had, since the last store

orderVars == <<cartItems, orderStatus, log>>
matchVars == <<shopItems, matches, matchResult, channelItems, matchUpdate>>
createVars == <<links, linkMode, orderRow, matchOutput>>
oauthVars == <<pkceStore, pkceAliases, salesforceOAuthContextStore,
               salesforceOAuthContextAliases, now, oauthCall, spent>>
vars == <<cartItems, orderStatus, log, runs, shopItems, matches, matchResult,
          channelItems, links, linkMode, orderRow, matchOutput, matchUpdate,
          adapterCall, webhook,
          pkceStore, pkceAliases, salesforceOAuthContextStore,
          salesforceOAuthContextAliases, now, oauthCall, spent>>

-----------------------------------------------------------------------------
(* Bounds and input sets *)

MaxItems == 2
MaxMatches == 3
MaxInput == 2

Orders == {"o1"}
ChannelList == <<"c1", "c2">>
Channels == {ChannelList[i] : i \in DOMAIN ChannelList}
PurchaseIds == {"p1", "p2"}
Statuses == {"PENDING", "AWAITING", "COMPLETE", "CANCELLED"}

-----------------------------------------------------------------------------
(* Order rows *)

\* an Order id with no row yet
NoOrder ==
    [created |-> FALSE, status |-> "PENDING", user |-> "", linkOrder |-> FALSE,
     matchOrder |-> FALSE,
     processOrder |-> FALSE, lineItems |-> << >>, initialCart |-> << >>,
     error |-> ""]

\* an Order created by hand: no lineItems and the three flags off
ManualOrder == [NoOrder EXCEPT !.created = TRUE, !.user = "u1"]

\* no adapter executor has been called
NoCall == [kind |-> "none"]

-----------------------------------------------------------------------------
(* The PKCE verifier store and the Salesforce OAuth context store *)

MaxNow == 2
MaxTtl == 1

Keys == {"nonce", "state"}
Verifiers == {"v1", "v2"}

\* Map.get of a key the Map does not hold, and a missing or empty argument
Undefined == "undefined"

\* pkceStore.get of a key the Map does not hold
NoEntry == [verifier |-> Undefined, expiresAt |-> 0]

\* new Map() four times over, the clock at its origin
OAuthInit ==
    /\ pkceStore = [k \in Keys |-> NoEntry]
    /\ pkceAliases = [k \in Keys |-> Undefined]
    /\ salesforceOAuthContextStore = [k \in Keys |-> Undefined]
    /\ salesforceOAuthContextAliases = [k \in Keys |-> Undefined]
    /\ now = 0
    /\ oauthCall = [kind |-> "none", mark |-> 0]
    /\ spent = [store \in {"pkce", "context"} |-> {}]

-----------------------------------------------------------------------------
(* CartItem rows *)

\* CartItem.createOne with the field defaults: url, purchaseId, error empty,
\* status PENDING, no TrackingDetail.
NewCartItem(o, ch) ==
    [order |-> o, channel |-> ch, status |-> "PENDING",
     url |-> "", purchaseId |-> "", error |-> "", tracked |-> FALSE]

\* the where-clause { purchaseId: { equals: "" }, url: { equals: "" } }
Unplaced(c) == c.purchaseId = "" /\ c.url = ""

ItemIds(cart) == DOMAIN cart

ItemsOf(cart, o) == {i \in ItemIds(cart) : cart[i].order = o}

-----------------------------------------------------------------------------
(* The create-purchase adapter and its outcomes *)

ErrorPrefix == "ORDER_PLACEMENT_ERROR: "
DefaultThrowMessage == "Error on order placement. Order may have been placed."

\* What createChannelPurchase2 can do: return an object whose purchaseId,
\* url and error are each present or absent (absent is ""), or throw with a
\* message (possibly empty). One outcome of each shape.
Outcomes ==
    {[throws |-> FALSE, purchaseId |-> "p1", url |-> "u", error |-> "", message |-> ""],
     [throws |-> FALSE, purchaseId |-> "p2", url |-> "", error |-> "", message |-> ""],
     [throws |-> FALSE, purchaseId |-> "p1", url |-> "u", error |-> "declined", message |-> ""],
     [throws |-> FALSE, purchaseId |-> "", url |-> "", error |-> "declined", message |-> ""],
     [throws |-> FALSE, purchaseId |-> "", url |-> "", error |-> "", message |-> ""],
     [throws |-> TRUE, purchaseId |-> "", url |-> "", error |-> "", message |-> "declined"],
     [throws |-> TRUE, purchaseId |-> "", url |-> "", error |-> "", message |-> ""]}

\* updateCartItems: every row of cartItems gets url, error and purchaseId.
UpdateCartItems(cart, ids, url, error, purchaseId) ==
    [i \in DOMAIN cart |->
        IF i \in ids
        THEN [cart[i] EXCEPT !.url = url, !.error = error, !.purchaseId = purchaseId]
        ELSE cart[i]]

\* the try/catch around createChannelPurchase2
ApplyOutcome(cart, ids, res) ==
    IF res.throws
    THEN UpdateCartItems(cart, ids, "",
            ErrorPrefix \o (IF res.message # "" THEN res.message ELSE DefaultThrowMessage),
            "")
    ELSE LET c1 == IF res.error # ""
                   THEN UpdateCartItems(cart, ids, "", ErrorPrefix \o res.error, "")
                   ELSE cart
         IN  IF res.purchaseId # ""
             THEN UpdateCartItems(c1, ids, res.url, "", res.purchaseId)
             ELSE c1

\* ChannelCartItems that leaves out the rows an earlier attempt left an error on
ChannelCartItemsWithoutErrors(cart, o, ch) ==
    {i \in ItemsOf(cart, o) :
        cart[i].channel = ch /\ Unplaced(cart[i]) /\ cart[i].error = ""}

\* ChannelCartItems without the purchaseId and url filter
ChannelCartItemsUnfiltered(cart, o, ch) ==
    {i \in ItemsOf(cart, o) : cart[i].channel = ch}

\* cartChannels[ch].cartItems: the Order's rows on channel ch with empty
\* purchaseId and empty url
ChannelCartItems(cart, o, ch) ==
    {i \in ItemsOf(cart, o) : cart[i].channel = ch /\ Unplaced(cart[i])}

\* CartCount that leaves out the rows that carry an error
CartCountWithoutErrors(cart, o) ==
    Cardinality({i \in ItemsOf(cart, o) : Unplaced(cart[i]) /\ cart[i].error = ""})

\* query.CartItem.count of the Order's rows with empty url and purchaseId
CartCount(cart, o) ==
    Cardinality({i \in ItemsOf(cart, o) : Unplaced(cart[i])})

\* the status the pipeline writes after its recount
StatusAfterCount(n) == IF n = 0 THEN "AWAITING" ELSE "PENDING"

CallEvent(o, ch, ids) ==
    [kind |-> "createPurchase", order |-> o, channel |-> ch, items |-> ids,
     status |-> "", count |-> 0]

StatusEvent(o, ch, st, n) ==
    [kind |-> "setStatus", order |-> o, channel |-> ch, items |-> {},
     status |-> st, count |-> n]

\* PlaceChannels that leaves the loop at the first call that returns an
\* error or throws
RECURSIVE PlaceChannelsUntilFailure(_, _, _, _, _)
PlaceChannelsUntilFailure(st, o, snapshot, chs, out) ==
    IF chs = << >> THEN st
    ELSE LET ch  == Head(chs)
             ids == snapshot[ch]
         IN  IF ids = {}
             THEN PlaceChannelsUntilFailure(st, o, snapshot, Tail(chs), out)
             ELSE LET cart1 == ApplyOutcome(st.cart, ids, out[ch])
                      n     == CartCount(cart1, o)
                      s1    == StatusAfterCount(n)
                      st1   == [cart   |-> cart1,
                                status |-> [st.status EXCEPT ![o] = s1],
                                log    |-> st.log \o <<CallEvent(o, ch, ids),
                                                       StatusEvent(o, ch, s1, n)>>]
                  IN  IF out[ch].throws \/ out[ch].error # ""
                      THEN st1
                      ELSE PlaceChannelsUntilFailure(st1, o, snapshot, Tail(chs), out)

\* The loop over cartChannels of one Order. snapshot is the cartChannels
\* read made once before the loop; st carries the tables and the log.
RECURSIVE PlaceChannels(_, _, _, _, _)
PlaceChannels(st, o, snapshot, chs, out) ==
    IF chs = << >> THEN st
    ELSE LET ch  == Head(chs)
             ids == snapshot[ch]
         IN  IF ids = {}
             THEN PlaceChannels(st, o, snapshot, Tail(chs), out)
             ELSE LET cart1 == ApplyOutcome(st.cart, ids, out[ch])
                      n     == CartCount(cart1, o)
                      s1    == StatusAfterCount(n)
                  IN  PlaceChannels(
                        [cart   |-> cart1,
                         status |-> [st.status EXCEPT ![o] = s1],
                         log    |-> st.log \o <<CallEvent(o, ch, ids),
                                                StatusEvent(o, ch, s1, n)>>],
                        o, snapshot, Tail(chs), out)

\* placeMultipleOrders for one Order id
PlaceOneOrder(st, o, out) ==
    PlaceChannels(st, o, [ch \in Channels |-> ChannelCartItems(st.cart, o, ch)],
                  ChannelList, out)

-----------------------------------------------------------------------------
(* Operations, each one whole handler *)

\* no pipeline run is in progress
IdleRuns == <<[pc |-> "idle"], [pc |-> "idle"]>>

\* mutation placeOrders(ids) with ids = [o]
PlaceOrders(o) ==
    \E out \in [{ch \in Channels : ChannelCartItems(cartItems, o, ch) # {}} -> Outcomes] :
        \E r \in {PlaceOneOrder([cart |-> cartItems, status |-> orderStatus,
                                  log |-> << >>], o, out)} :
            /\ cartItems' = r.cart
            /\ orderStatus' = r.status
            /\ log' = r.log
            /\ UNCHANGED <<runs, matchVars, createVars, adapterCall, webhook, oauthVars>>

\* mutation addToCart: an unplaced, non-cancelled row of the same order and
\* channel gets its quantity raised (quantity is no field of the model's
\* rows); otherwise a row is created.
AddToCartExisting(cart, o, ch) ==
    {i \in ItemsOf(cart, o) :
        /\ cart[i].channel = ch
        /\ cart[i].status # "CANCELLED"
        /\ Unplaced(cart[i])}

AddToCart(o, ch) ==
    /\ IF AddToCartExisting(cartItems, o, ch) # {}
       THEN cartItems' = cartItems
       ELSE /\ Len(cartItems) < MaxItems
            /\ cartItems' = Append(cartItems, NewCartItem(o, ch))
    /\ log' = << >>
    /\ UNCHANGED <<orderStatus, runs, matchVars, createVars, adapterCall, webhook, oauthVars>>

\* CancelCartItems that skips the rows already placed
CancelCartItemsUnplaced(cart, ids) ==
    [i \in DOMAIN cart |->
        IF i \in ids /\ Unplaced(cart[i])
        THEN [cart[i] EXCEPT !.status = "CANCELLED"] ELSE cart[i]]

\* the loop of cancelOrder and cancelPurchase: status CANCELLED on every row
CancelCartItems(cart, ids) ==
    [i \in DOMAIN cart |->
        IF i \in ids THEN [cart[i] EXCEPT !.status = "CANCELLED"] ELSE cart[i]]

\* mutation cancelOrder(orderId)
CancelOrder(o) ==
    /\ orderStatus' = [orderStatus EXCEPT ![o] = "CANCELLED"]
    /\ cartItems' = CancelCartItems(cartItems, ItemsOf(cartItems, o))
    /\ log' = << >>
    /\ UNCHANGED <<runs, matchVars, createVars, adapterCall, webhook, oauthVars>>

\* the rows cancelPurchase finds: purchaseId equals the argument
PurchaseCartItems(cart, pid) == {i \in ItemIds(cart) : cart[i].purchaseId = pid}

\* mutation cancelPurchase(purchaseId)
CancelPurchase(pid) ==
    /\ cartItems' = CancelCartItems(cartItems, PurchaseCartItems(cartItems, pid))
    /\ log' = << >>
    /\ UNCHANGED <<orderStatus, runs, matchVars, createVars, adapterCall, webhook, oauthVars>>

\* UntrackedItems that also counts the CANCELLED rows
UntrackedItemsWithCancelled(cart, o) ==
    {i \in ItemsOf(cart, o) : ~cart[i].tracked}

\* foundOrder.cartItems of the TrackingDetail hook: the Order's rows with no
\* TrackingDetail and a status other than CANCELLED
UntrackedItems(cart, o) ==
    {i \in ItemsOf(cart, o) : ~cart[i].tracked /\ cart[i].status # "CANCELLED"}

\* CompletesOrder without the test of the Order's status
CompletesOrderAnyStatus(cart, status, o) ==
    UntrackedItems(cart, o) = {}

\* the hook's condition for writing COMPLETE
CompletesOrder(cart, status, o) ==
    UntrackedItems(cart, o) = {} /\ status[o] = "AWAITING"

\* foundTracking.cartItems[0]: the first connected row
FirstItem(S) == CHOOSE i \in S : \A j \in S : i <= j

\* TrackingDetail create with cartItems connected to S, and its
\* afterOperation hook
CreateTrackingDetail(S) ==
    LET cart1 == [i \in DOMAIN cartItems |->
                    IF i \in S THEN [cartItems[i] EXCEPT !.tracked = TRUE]
                    ELSE cartItems[i]]
    IN  /\ cartItems' = cart1
        /\ IF S = {}
           THEN orderStatus' = orderStatus
           ELSE LET o == cart1[FirstItem(S)].order
                IN  IF CompletesOrder(cart1, orderStatus, o)
                    THEN orderStatus' = [orderStatus EXCEPT ![o] = "COMPLETE"]
                    ELSE orderStatus' = orderStatus
        /\ log' = << >>
        /\ UNCHANGED <<runs, matchVars, createVars, adapterCall, webhook, oauthVars>>

-----------------------------------------------------------------------------
(* Specification of the order lifecycle, one operation at a time *)

Init ==
    /\ cartItems = << >>
    /\ orderStatus = [o \in Orders |-> "PENDING"]
    /\ log = << >>
    /\ runs = IdleRuns
    /\ shopItems = << >>
    /\ matches = << >>
    /\ matchResult = "none"
    /\ matchUpdate = NoCall
    /\ channelItems = << >>
    /\ links = << >>
    /\ linkMode = "sequential"
    /\ orderRow = [o \in Orders |-> ManualOrder]
    /\ matchOutput = [k \in 1..MaxMatches |-> << >>]
    /\ adapterCall = NoCall
    /\ webhook = NoCall
    /\ OAuthInit

Next ==
    \/ \E o \in Orders : PlaceOrders(o)
    \/ \E o \in Orders, ch \in Channels : AddToCart(o, ch)
    \/ \E o \in Orders : CancelOrder(o)
    \/ \E pid \in PurchaseIds \cup {""} : CancelPurchase(pid)
    \/ \E S \in SUBSET ItemIds(cartItems) : CreateTrackingDetail(S)

Spec == Init /\ [][Next]_vars

-----------------------------------------------------------------------------
(* Properties of the order lifecycle (specification Spec) *)

\* the rows passed to create-purchase by the pipeline run that ran last
AttemptedItems(l) == UNION {l[k].items : k \in DOMAIN l}

Placed(c) == c.purchaseId # ""

\* C1: after a pipeline run every CartItem it attempted has exactly one of
\* purchaseId and error set, whatever create-purchase returned or threw.
C1_ExactlyOneOutcome ==
    \A i \in AttemptedItems(log) :
        \/ cartItems[i].purchaseId # "" /\ cartItems[i].error = ""
        \/ cartItems[i].purchaseId = "" /\ cartItems[i].error # ""

\* C2: a pipeline run that calls create-purchase (the only steps that leave
\* a non-empty log) makes no call that includes a CartItem whose purchaseId
\* was already set, and leaves that CartItem's url, purchaseId and error as
\* they were.
C2_PlacedItemsUntouched ==
    [][log' # << >> =>
          \A i \in ItemIds(cartItems) :
              Placed(cartItems[i]) =>
                  /\ i \notin AttemptedItems(log')
                  /\ cartItems'[i].url = cartItems[i].url
                  /\ cartItems'[i].purchaseId = cartItems[i].purchaseId
                  /\ cartItems'[i].error = cartItems[i].error]_vars

\* C2 witness: a run has just retried the rows an earlier run left unplaced
\* while a row that earlier run placed stayed out of every call.
C2_Witness ==
    /\ log # << >>
    /\ \E i \in ItemIds(cartItems) :
          Placed(cartItems[i]) /\ i \notin AttemptedItems(log)
    /\ \E j \in AttemptedItems(log) : cartItems[j].error # ""

\* C3: no pipeline run passes a CANCELLED CartItem to create-purchase.
C3_NoCancelledItemAttempted ==
    \A i \in AttemptedItems(log) : cartItems[i].status # "CANCELLED"

C5_CompleteOnlyFromAwaiting ==
    [][\A o \in Orders :
          (orderStatus'[o] = "COMPLETE" /\ orderStatus[o] # "COMPLETE") =>
              /\ orderStatus[o] = "AWAITING"
              /\ \E S \in SUBSET ItemIds(cartItems) : CreateTrackingDetail(S)
              /\ \A i \in ItemIds(cartItems') :
                    (cartItems'[i].order = o /\ cartItems'[i].status # "CANCELLED")
                        => cartItems'[i].tracked]_vars

\* C5 witness: an Order is COMPLETE and has tracked rows.
C5_Witness ==
    \E o \in Orders :
        /\ orderStatus[o] = "COMPLETE"
        /\ \E i \in ItemsOf(cartItems, o) :
              cartItems[i].tracked /\ cartItems[i].status # "CANCELLED"

\* C6: when a TrackingDetail is created on rows of an AWAITING Order and
\* every non-cancelled CartItem of the Order then has tracking, the Order
\* becomes COMPLETE, whether or not its CANCELLED CartItems have tracking.
C6_CancelledItemsNotRequired ==
    [][\A S \in SUBSET ItemIds(cartItems) :
          (S # {} /\ CreateTrackingDetail(S)) =>
              LET o == cartItems[FirstItem(S)].order
              IN  ( /\ orderStatus[o] = "AWAITING"
                    /\ \A i \in ItemIds(cartItems') :
                          (cartItems'[i].order = o /\ cartItems'[i].status # "CANCELLED")
                              => cartItems'[i].tracked )
                  => orderStatus'[o] = "COMPLETE"]_vars

\* C6 witness: a COMPLETE Order with a placed CartItem that is CANCELLED and
\* has no TrackingDetail, next to a tracked one (a placed untracked row
\* cannot join a COMPLETE Order without a status write, so the row was
\* CANCELLED when the Order completed).
C6_Witness ==
    \E o \in Orders :
        /\ orderStatus[o] = "COMPLETE"
        /\ \E i, j \in ItemsOf(cartItems, o) :
              /\ cartItems[i].status = "CANCELLED"
              /\ Placed(cartItems[i])
              /\ ~cartItems[i].tracked
              /\ cartItems[j].status # "CANCELLED"
              /\ cartItems[j].tracked

\* C7: once an Order is CANCELLED no operation changes its status.
C7_CancelledIsTerminal ==
    [][\A o \in Orders :
          orderStatus[o] = "CANCELLED" => orderStatus'[o] = "CANCELLED"]_vars

\* C8: cancelOrder can run in every Order status, and after it the Order is
\* CANCELLED and so is every CartItem of the Order.
C8_CancelOrderCancelsAll ==
    [][\A o \in Orders :
          /\ ENABLED CancelOrder(o)
          /\ CancelOrder(o) =>
                /\ orderStatus'[o] = "CANCELLED"
                /\ \A i \in ItemIds(cartItems') :
                      cartItems'[i].order = o => cartItems'[i].status = "CANCELLED"]_vars

\* C8 witness: a CANCELLED Order whose rows, a placed and tracked one and an
\* unplaced one, are all CANCELLED.
C8_Witness ==
    \E o \in Orders :
        /\ orderStatus[o] = "CANCELLED"
        /\ \A i \in ItemsOf(cartItems, o) : cartItems[i].status = "CANCELLED"
        /\ \E i, j \in ItemsOf(cartItems, o) :
              /\ Placed(cartItems[i]) /\ cartItems[i].tracked
              /\ Unplaced(cartItems[j])

\* the messages create-purchase can return or throw
FailureMessages ==
    {DefaultThrowMessage} \cup {res.error : res \in Outcomes}
                          \cup {res.message : res \in Outcomes}

HasErrorPrefix(e) == \E m \in FailureMessages : e = ErrorPrefix \o m

\* the create-purchase call of the run that ran last failed for row i: the
\* row is unplaced and carries an error
FailedIn(cart, i) == Unplaced(cart[i]) /\ cart[i].error # ""

\* C16: a create-purchase failure for one target does not abort the run:
\* every target that had unplaced CartItems of the Order before the run is
\* called with exactly those CartItems, whatever the other calls did. The
\* CartItems of one call end the run either all as before, or all with the
\* same url, purchaseId and error: placed without error, or unplaced with
\* an ORDER_PLACEMENT_ERROR; a CartItem in no call is unchanged.
C16_FailureDoesNotAbort ==
    [][log' # << >> =>
          \A o \in Orders :
              /\ \A ch \in Channels :
                    ChannelCartItems(cartItems, o, ch) # {} =>
                        \E k \in DOMAIN log' :
                            log'[k] = CallEvent(o, ch, ChannelCartItems(cartItems, o, ch))
              /\ \A k \in DOMAIN log' :
                    \/ \A i \in log'[k].items : cartItems'[i] = cartItems[i]
                    \/ \E i \in log'[k].items :
                          /\ \/ Placed(cartItems'[i]) /\ cartItems'[i].error = ""
                             \/ Unplaced(cartItems'[i]) /\ HasErrorPrefix(cartItems'[i].error)
                          /\ \A j \in log'[k].items :
                                cartItems'[j] =
                                    [cartItems[j] EXCEPT !.url = cartItems'[i].url,
                                                         !.purchaseId = cartItems'[i].purchaseId,
                                                         !.error = cartItems'[i].error]
              /\ \A i \in ItemIds(cartItems) \ AttemptedItems(log') :
                    cartItems'[i] = cartItems[i]]_vars

\* C16 witness: the run called two targets; the first call failed and the
\* second call was still made and placed its CartItem.
C16_Witness ==
    /\ Len(log) = 4
    /\ log[1].kind = "createPurchase" /\ log[3].kind = "createPurchase"
    /\ \E i \in log[1].items : FailedIn(cartItems, i)
    /\ \E j \in log[3].items : Placed(cartItems[j]) /\ cartItems[j].error = ""

\* C17: when a create-purchase call of a run returns an error or throws,
\* every CartItem passed in that call ends the run with an error that
\* starts with ORDER_PLACEMENT_ERROR: and with empty purchaseId and url, and
\* Order.error is not written.
C17_FailedCallMarksItems ==
    [][\A o \in Orders :
          \A out \in [{ch \in Channels : ChannelCartItems(cartItems, o, ch) # {}}
                         -> Outcomes] :
              LET r == PlaceOneOrder([cart |-> cartItems, status |-> orderStatus,
                                      log |-> << >>], o, out)
              IN  ( /\ r.log # << >>
                    /\ cartItems' = r.cart
                    /\ orderStatus' = r.status
                    /\ log' = r.log )
                  => /\ orderRow'[o].error = orderRow[o].error
                     /\ \A ch \in DOMAIN out :
                           (out[ch].throws \/ out[ch].error # "") =>
                               \A i \in ChannelCartItems(cartItems, o, ch) :
                                   /\ HasErrorPrefix(cartItems'[i].error)
                                   /\ cartItems'[i].purchaseId = ""
                                   /\ cartItems'[i].url = ""]_vars

\* C18: after a run that called a target, the Order is AWAITING if each of
\* its CartItems that is not CANCELLED is placed, and PENDING if one that is
\* not CANCELLED is unplaced; CANCELLED unplaced CartItems do not count.
C18_StatusIgnoresCancelled ==
    \A o \in Orders :
        log # << >> =>
            LET live == {i \in ItemsOf(cartItems, o) : cartItems[i].status # "CANCELLED"}
            IN  IF \E i \in live : Unplaced(cartItems[i])
                THEN orderStatus[o] = "PENDING"
                ELSE orderStatus[o] = "AWAITING"

-----------------------------------------------------------------------------
(* Two pipeline runs on one Order, interleaved at their awaits *)

Procs == {1, 2}

\* the rows of a set in the order of the cartItems array
RECURSIVE SeqOfSet(_)
SeqOfSet(S) ==
    IF S = {} THEN << >>
    ELSE LET i == CHOOSE x \in S : \A y \in S : x <= y
         IN  <<i>> \o SeqOfSet(S \ {i})

WriteRec(i, url, error, purchaseId) ==
    [id |-> i, url |-> url, error |-> error, purchaseId |-> purchaseId]

\* the CartItem.updateOne calls of one updateCartItems, one per row
UpdateWrites(ids, url, error, purchaseId) ==
    [k \in 1..Len(SeqOfSet(ids)) |-> WriteRec(SeqOfSet(ids)[k], url, error, purchaseId)]

\* the updateOne calls the try/catch makes for an outcome, in order
OutcomeWrites(ids, res) ==
    IF res.throws
    THEN UpdateWrites(ids, "",
            ErrorPrefix \o (IF res.message # "" THEN res.message ELSE DefaultThrowMessage),
            "")
    ELSE (IF res.error # ""
          THEN UpdateWrites(ids, "", ErrorPrefix \o res.error, "")
          ELSE << >>)
         \o
         (IF res.purchaseId # ""
          THEN UpdateWrites(ids, res.url, "", res.purchaseId)
          ELSE << >>)

\* the rest of the loop over cartChannels, past the channels whose
\* cartItems are empty
RECURSIVE SkipEmpty(_, _)
SkipEmpty(chs, snapshot) ==
    IF chs = << >> THEN << >>
    ELSE IF snapshot[Head(chs)] = {} THEN SkipEmpty(Tail(chs), snapshot)
    ELSE chs

\* a run enters placeMultipleOrders and reads cartChannels
RunStart(p, o) ==
    /\ runs[p].pc = "idle"
    /\ runs' = [runs EXCEPT ![p] =
                  [pc |-> "loop", order |-> o,
                   snapshot |-> [ch \in Channels |-> ChannelCartItems(cartItems, o, ch)],
                   chs |-> ChannelList, writes |-> << >>, count |-> 0]]
    /\ UNCHANGED <<cartItems, orderStatus, log, matchVars, createVars, adapterCall, webhook, oauthVars>>

\* the loop ends, or create-purchase is awaited for the next channel and
\* returns or throws
RunCall(p) ==
    /\ runs[p].pc = "loop"
    /\ LET rest == SkipEmpty(runs[p].chs, runs[p].snapshot)
       IN  IF rest = << >>
           THEN runs' = [runs EXCEPT ![p] = [pc |-> "done"]]
           ELSE \E res \in Outcomes :
                   runs' = [runs EXCEPT ![p].pc = "update",
                                        ![p].chs = Tail(rest),
                                        ![p].writes =
                                            OutcomeWrites(runs[p].snapshot[Head(rest)], res)]
    /\ UNCHANGED <<cartItems, orderStatus, log, matchVars, createVars, adapterCall, webhook, oauthVars>>

\* one CartItem.updateOne of updateCartItems
RunUpdate(p) ==
    /\ runs[p].pc = "update"
    /\ runs[p].writes # << >>
    /\ LET w == Head(runs[p].writes)
       IN  cartItems' = UpdateCartItems(cartItems, {w.id}, w.url, w.error, w.purchaseId)
    /\ runs' = [runs EXCEPT ![p].writes = Tail(runs[p].writes)]
    /\ UNCHANGED <<orderStatus, log, matchVars, createVars, adapterCall, webhook, oauthVars>>

\* query.CartItem.count
RunCount(p) ==
    /\ runs[p].pc = "update"
    /\ runs[p].writes = << >>
    /\ runs' = [runs EXCEPT ![p].pc = "write",
                            ![p].count = CartCount(cartItems, runs[p].order)]
    /\ UNCHANGED <<cartItems, orderStatus, log, matchVars, createVars, adapterCall, webhook, oauthVars>>

\* query.Order.updateOne with the status the count chose
RunWrite(p) ==
    /\ runs[p].pc = "write"
    /\ orderStatus' = [orderStatus EXCEPT
                          ![runs[p].order] = StatusAfterCount(runs[p].count)]
    /\ runs' = [runs EXCEPT ![p].pc = "loop"]
    /\ UNCHANGED <<cartItems, log, matchVars, createVars, adapterCall, webhook, oauthVars>>

\* the cart is assembled before the runs start
ConcAddToCart(o, ch) ==
    /\ \A p \in Procs : runs[p].pc = "idle"
    /\ AddToCart(o, ch)

NextConc ==
    \/ \E o \in Orders, ch \in Channels : ConcAddToCart(o, ch)
    \/ \E p \in Procs, o \in Orders : RunStart(p, o)
    \/ \E p \in Procs : RunCall(p)
    \/ \E p \in Procs : RunUpdate(p)
    \/ \E p \in Procs : RunCount(p)
    \/ \E p \in Procs : RunWrite(p)

SpecConc == Init /\ [][NextConc]_vars

\* C9: after two interleaved pipeline runs on an Order that has CartItems
\* have both finished, the Order is AWAITING if and only if none of its
\* CartItems is unplaced.
C9_NoRecountRace ==
    \A o \in Orders :
        ( /\ \A p \in Procs : runs[p].pc = "done"
          /\ ItemsOf(cartItems, o) # {} )
        => ( orderStatus[o] = "AWAITING"
               <=> \A i \in ItemsOf(cartItems, o) : ~Unplaced(cartItems[i]) )

-----------------------------------------------------------------------------
(* Match creation: the resolveInput hook of the Match list *)

Users == {"u1", "u2"}
\* the users whose role has canSeeOtherMatches
SeeOtherMatches == {"u1"}
\* the (productId, variantId, quantity, shop) tuples a ShopItem is made of
Tuples == {[productId |-> "pA", variantId |-> "v1", quantity |-> 1, shop |-> "s1"],
           [productId |-> "pB", variantId |-> "v1", quantity |-> 1, shop |-> "s1"]}

Range(f) == {f[k] : k \in DOMAIN f}

SeqsUpTo(S, n) == UNION {[1..k -> S] : k \in 0..n}

\* rules.canReadMatches, the query filter of Match and of ShopItem
CanRead(session, row) == session \in SeeOtherMatches \/ row.user = session

\* item.user?.connect?.id || context.session?.itemId, which is also the
\* user the resolveInput hook of the user field gives a row created without
\* one ("none" is an entry without user)
OwnerOf(entry, session) == IF entry.user # "none" THEN entry.user ELSE session

\* the row ShopItem.createOne or ChannelItem.createOne makes of an entry
ItemRow(entry, session) == [tuple |-> entry.tuple, user |-> OwnerOf(entry, session)]

\* create entries that name no user
Unowned(ts) == [n \in DOMAIN ts |-> [tuple |-> ts[n], user |-> "none"]]

UniqueViolationUnchecked(items, row) == FALSE

\* @@unique([quantity, productId, variantId, shopId, userId]) of ShopItem
\* and @@unique([quantity, productId, variantId, channelId, userId]) of
\* ChannelItem: the insert of a row whose fingerprint the table has fails
UniqueViolation(items, row) ==
    \E i \in DOMAIN items : items[i].tuple = row.tuple /\ items[i].user = row.user

\* findMany of ShopItem or ChannelItem by fingerprint: the readable rows
\* with the tuple and the user
FindShopItems(items, session, t, user) ==
    {i \in DOMAIN items :
        /\ CanRead(session, items[i])
        /\ items[i].tuple = t
        /\ items[i].user = user}

\* ensureShopItems: find or create each input.create entry, in order;
\* st.items is the table, st.ids the processedItems, st.thrown is set when
\* createOne fails
RECURSIVE EnsureShopItems(_, _, _)
EnsureShopItems(st, session, create) ==
    IF create = << >> \/ st.thrown THEN st
    ELSE LET row == ItemRow(Head(create), session)
             found == FindShopItems(st.items, session, row.tuple, row.user)
         IN  IF found # {}
             THEN EnsureShopItems(
                    [st EXCEPT !.ids = Append(st.ids, CHOOSE i \in found : \A j \in found : i <= j)],
                    session, Tail(create))
             ELSE IF UniqueViolation(st.items, row)
             THEN [st EXCEPT !.thrown = TRUE]
             ELSE EnsureShopItems(
                    [st EXCEPT !.items = Append(st.items, row),
                               !.ids   = Append(st.ids, Len(st.items) + 1)],
                    session, Tail(create))

\* how ChannelItem.findOne with a where that names no unique field ends:
\* it is refused, or it answers as findMany does
FindOneOutcomes == {"throws", "finds"}

\* ensureChannelItems of the resolveInput hook: findOne by fingerprint, then
\* createOne
EnsureChannelItems(st, session, create, findOne) ==
    IF create # << >> /\ findOne = "throws" THEN [st EXCEPT !.thrown = TRUE]
    ELSE EnsureShopItems(st, session, create)

\* the state ensureShopItems and ensureChannelItems start from
NoneProcessed(items) == [items |-> items, ids |-> << >>, thrown |-> FALSE]

\* checkForDuplicate: a readable Match that has some input among inputIds,
\* as many inputs as inputIds has entries, and each input among inputIds
CheckForDuplicate(ms, session, inputIds) ==
    \E k \in DOMAIN ms :
        /\ CanRead(session, ms[k])
        /\ ms[k].input \cap Range(inputIds) # {}
        /\ Cardinality(ms[k].input) = Len(inputIds)
        /\ \A id \in ms[k].input : id \in Range(inputIds)

\* the create branch: the test is made only for a non-empty connect list
RejectsCreate(ms, session, inputIds) ==
    Len(inputIds) > 0 /\ CheckForDuplicate(ms, session, inputIds)

\* the channels of the ChannelItems with the ids given
OutputChannels(items, ids) == [n \in DOMAIN ids |-> items[ids[n]].tuple.channel]

\* the end of Match create in the table ms with the output relations outs:
\* the duplicate test on the connected input ids, then the row with its
\* input and output relations
InsertMatch(ms, outs, session, owner, inputIds, outputIds) ==
    IF RejectsCreate(ms, session, inputIds)
    THEN /\ matchResult' = "duplicate"
         /\ matches' = ms
         /\ matchOutput' = outs
    ELSE /\ matchResult' = "created"
         /\ matches' = Append(ms, [user  |-> IF owner # "none" THEN owner ELSE session,
                                   input |-> Range(inputIds)])
         /\ matchOutput' = [outs EXCEPT
                               ![Len(ms) + 1] = OutputChannels(channelItems', outputIds)]

\* Match create by a signed-in user with the whole data: data.user is owner
\* or absent ("none"), data.input is absent (hasInput FALSE) or holds connect
\* and create lists, data.output holds connect and create lists. The stored
\* input relation is the set of the connected ids.
CreateMatchWithOutput(session, owner, hasInput, connect, create, outConnect, outCreate, findOne) ==
    /\ Len(matches) < MaxMatches
    /\ UNCHANGED <<orderVars, runs, links, linkMode, orderRow, matchUpdate, adapterCall,
                   webhook, oauthVars>>
    /\ \E e \in {EnsureShopItems(NoneProcessed(shopItems), session, create)} :
       \E c \in {IF e.thrown THEN NoneProcessed(channelItems)
                 ELSE EnsureChannelItems(NoneProcessed(channelItems), session,
                                         outCreate, findOne)} :
          /\ shopItems' = e.items
          /\ channelItems' = c.items
          /\ IF e.thrown \/ c.thrown \/ ~hasInput
             THEN \* createOne failed, or resolvedData.input.connect of an
                  \* absent input throws
                  /\ matchResult' = "error"
                  /\ UNCHANGED <<matches, matchOutput>>
             ELSE InsertMatch(matches, matchOutput, session, owner,
                              connect \o e.ids, outConnect \o c.ids)

\* Match create whose data has no output and whose input.create entries
\* name no user
CreateMatch(session, owner, hasInput, connect, create) ==
    CreateMatchWithOutput(session, owner, hasInput, connect, Unowned(create),
                          << >>, << >>, "finds")

NextMatch ==
    \E session \in Users, owner \in Users \cup {"none"}, hasInput \in BOOLEAN :
        \E connect \in SeqsUpTo({i \in DOMAIN shopItems : CanRead(session, shopItems[i])},
                                MaxInput) :
            \E create \in SeqsUpTo(Tuples, MaxInput - Len(connect)) :
                /\ hasInput \/ (connect = << >> /\ create = << >>)
                /\ CreateMatch(session, owner, hasInput, connect, create)

SpecMatch == Init /\ [][NextMatch]_vars

\* C10: no two Matches of one owner have the same input ShopItem set, a
\* create that would make two being rejected.
C10_MatchInputsUnique ==
    \A a, b \in DOMAIN matches :
        (a # b /\ matches[a].user = matches[b].user)
            => matches[a].input # matches[b].input

-----------------------------------------------------------------------------
(* Order creation: the afterOperation hook of the Order list, with the     *)
(* link routing and the match resolution it runs                           *)

MaxLinks == 3
MaxLineItems == 2

LinkModes == {"sequential", "simultaneous"}
ProductOutcomes == {"same", "changed", "throws"}

NoMatchingLink == "No matching link found for this order"
SomeNotMatched == "MATCH_ERROR: Some lineItems not matched"
NoMatchesFound == "MATCH_ERROR: No matches found"
MatchFailedPrefix == "Match processing failed: "
UndefinedOutput == "Cannot read properties of undefined (reading 'output')"
ProductError == "Error executing getProductFunction"
PriceChangePrefix == "PRICE_CHANGE: "

\* Link.hooks.beforeOperation: the rank of a new Link
NextRank(ls) == IF Len(ls) > 0 THEN Len(ls) + 1 ELSE 1

\* Link create for the Shop. admits says whether the Link's stored filters
\* and customWhere admit the Order.
CreateLink(ch, admits) ==
    /\ Len(links) < MaxLinks
    /\ \A o \in Orders : ~orderRow[o].created
    /\ links' = Append(links, [rank |-> NextRank(links), channel |-> ch,
                               admits |-> admits])
    /\ UNCHANGED <<orderVars, runs, matchVars, linkMode, orderRow, matchOutput, adapterCall, webhook, oauthVars>>

\* Shop update of linkMode
SetLinkMode(m) ==
    /\ linkMode # m
    /\ \A o \in Orders : ~orderRow[o].created
    /\ linkMode' = m
    /\ UNCHANGED <<orderVars, runs, matchVars, links, orderRow, matchOutput, adapterCall, webhook, oauthVars>>

\* the virtual field Link.dynamicWhereClause: its resolver returns one
\* fixed string for every Link
DynamicWhereClause(link) == "Generated where clause based on filters"

\* applyDynamicWhereClause: null for an empty clause, otherwise what
\* Order.findOne answers for the clause joined with the Order's id
\* (find[clause] is TRUE when it returns the Order)
ApplyDynamicWhereClause(link, find) ==
    IF DynamicWhereClause(link) = "" THEN FALSE
    ELSE find[DynamicWhereClause(link)]

\* links.sort((a, b) => a.rank - b.rank), a stable sort
RECURSIVE SortByRank(_)
SortByRank(ls) ==
    IF ls = << >> THEN << >>
    ELSE LET k == CHOOSE k \in DOMAIN ls :
                     \A j \in DOMAIN ls :
                        \/ ls[k].rank < ls[j].rank
                        \/ ls[k].rank = ls[j].rank /\ k <= j
         IN  <<ls[k]>> \o SortByRank(SubSeq(ls, 1, k - 1) \o SubSeq(ls, k + 1, Len(ls)))

\* the sequential loop: the first Link that matches, then break
RECURSIVE FirstMatching(_, _)
FirstMatching(ls, find) ==
    IF ls = << >> THEN << >>
    ELSE IF ApplyDynamicWhereClause(Head(ls), find) THEN <<Head(ls)>>
    ELSE FirstMatching(Tail(ls), find)

\* matchedLinks
MatchedLinks(ls, mode, find) ==
    IF mode = "sequential" THEN FirstMatching(SortByRank(ls), find)
    ELSE IF mode = "simultaneous"
    THEN SelectSeq(SortByRank(ls), LAMBDA l : ApplyDynamicWhereClause(l, find))
    ELSE << >>

\* CartItem.createMany of the Order's lineItems for every matched Link
RECURSIVE LinkCartItems(_, _, _, _)
LinkCartItems(cart, o, matched, n) ==
    IF matched = << >> THEN cart
    ELSE LinkCartItems(cart \o [k \in 1..n |-> NewCartItem(o, Head(matched).channel)],
                       o, Tail(matched), n)

\* the fields of a LineItem that getMatches compares with a Match input
LineTuple(t) == <<t.productId, t.variantId, t.quantity>>

InputTuples(items, m) == {LineTuple(items[i].tuple) : i \in m.input}

\* Match update that sets the output relation of Match k to ChannelItems on
\* the channels out
UpdateMatchOutput(k, out) ==
    /\ k \in DOMAIN matches
    /\ \A o \in Orders : ~orderRow[o].created
    /\ matchOutput[k] # out
    /\ matchOutput' = [matchOutput EXCEPT ![k] = out]
    /\ UNCHANGED <<orderVars, runs, matchVars, links, linkMode, orderRow, adapterCall, webhook, oauthVars>>

\* allMatches: the user's Matches that have, for every lineItem, some input
\* with the lineItem's productId, variantId and quantity
AllMatches(ms, items, user, lineItems) ==
    {k \in DOMAIN ms :
        /\ ms[k].user = user
        /\ \A n \in DOMAIN lineItems :
              LineTuple(lineItems[n]) \in InputTuples(items, ms[k])}

\* [filt]: the first of allMatches whose inputCount is the number of
\* lineItems (0 when there is none)
ExactMatch(ms, items, user, lineItems) ==
    LET S == {k \in AllMatches(ms, items, user, lineItems) :
                 Cardinality(ms[k].input) = Len(lineItems)}
    IN  IF S = {} THEN 0 ELSE CHOOSE k \in S : \A j \in S : k <= j

\* [singleFilt]: the first of the user's Matches whose every input has the
\* tuple (0 for undefined)
SingleMatch(ms, items, user, t) ==
    LET S == {k \in DOMAIN ms :
                 /\ ms[k].user = user
                 /\ \A i \in ms[k].input : LineTuple(items[i].tuple) = LineTuple(t)}
    IN  IF S = {} THEN 0 ELSE CHOOSE k \in S : \A j \in S : k <= j

\* the array the per-tuple fallback builds with Promise.all
FallbackOutput(ms, items, user, lineItems) ==
    [n \in DOMAIN lineItems |-> SingleMatch(ms, items, user, lineItems[n])]

\* what the loops of createCartItems step through: the channel of each
\* output item of each Match, and "undefined" where the array holds
\* undefined and reading .output throws
RECURSIVE CartSteps(_, _)
CartSteps(found, outs) ==
    IF found = << >> THEN << >>
    ELSE (IF Head(found) = 0 THEN <<"undefined">> ELSE outs[Head(found)])
         \o CartSteps(Tail(found), outs)

\* the getProductFunction calls createCartItems can reach: the steps before
\* the first undefined entry
RECURSIVE ProductCalls(_)
ProductCalls(steps) ==
    IF steps = << >> \/ Head(steps) = "undefined" THEN 0
    ELSE 1 + ProductCalls(Tail(steps))

\* createCartItems: one getProductFunction call and one CartItem.createOne
\* per output item, until one throws; prod[n] is the outcome of call n
RECURSIVE CreateCartItems(_, _, _, _, _)
CreateCartItems(cart, o, steps, prod, n) ==
    IF steps = << >> THEN [cart |-> cart, thrown |-> ""]
    ELSE IF Head(steps) = "undefined" THEN [cart |-> cart, thrown |-> UndefinedOutput]
    ELSE IF prod[n] = "throws" THEN [cart |-> cart, thrown |-> ProductError]
    ELSE CreateCartItems(
            Append(cart,
                   [NewCartItem(o, Head(steps)) EXCEPT
                       !.error = IF prod[n] = "changed"
                                 THEN PriceChangePrefix \o "Price changed"
                                 ELSE ""]),
            o, Tail(steps), prod, n + 1)

\* getMatches: the CartItem table, the Order.error and the message thrown
\* (none is ""), for each way the getProductFunction calls can end
GetMatches(cart, o, user, lineItems) ==
    LET filt == ExactMatch(matches, shopItems, user, lineItems)
        found == FallbackOutput(matches, shopItems, user, lineItems)
        steps == IF filt # 0 THEN CartSteps(<<filt>>, matchOutput)
                 ELSE IF Len(lineItems) > 1 /\ \E n \in DOMAIN found : found[n] # 0
                 THEN CartSteps(found, matchOutput)
                 ELSE << >>
        error == IF filt # 0 THEN ""
                 ELSE IF Len(lineItems) > 1
                 THEN (IF \E n \in DOMAIN found : found[n] = 0 THEN SomeNotMatched ELSE "")
                 ELSE NoMatchesFound
    IN  {[cart |-> r.cart, error |-> error, thrown |-> r.thrown] :
            r \in {CreateCartItems(cart, o, steps, prod, 1) :
                      prod \in [1..ProductCalls(steps) -> ProductOutcomes]}}

\* placeMultipleOrders({ids: [o]}) called from the hook: one result for
\* each way the create-purchase calls can end; Order.error is not written
PlaceFromHook(cart, status, o, error) ==
    {[cart |-> r.cart, status |-> r.status, log |-> r.log, error |-> error] :
        r \in {PlaceOneOrder([cart |-> cart, status |-> status, log |-> << >>], o, out) :
                  out \in [{ch \in Channels : ChannelCartItems(cart, o, ch) # {}}
                              -> Outcomes]}}

LinkBranchPlacing(cart, status, o, item) ==
    UNION {
        LET matched == MatchedLinks(links, linkMode, find)
        IN  IF Len(matched) > 0
            THEN PlaceFromHook(LinkCartItems(cart, o, matched, Len(item.lineItems)),
                               status, o, "")
            ELSE {[cart |-> cart, status |-> status, log |-> << >>,
                   error |-> NoMatchingLink]}
        : find \in [{DynamicWhereClause(links[k]) : k \in DOMAIN links} -> BOOLEAN]}

\* the linkOrder branch of the hook
LinkBranch(cart, status, o, item) ==
    UNION {
        LET matched == MatchedLinks(links, linkMode, find)
        IN  IF Len(matched) > 0
            THEN LET cart1 == LinkCartItems(cart, o, matched, Len(item.lineItems))
                 IN  IF item.processOrder
                     THEN PlaceFromHook(cart1, status, o, "")
                     ELSE {[cart |-> cart1, status |-> status, log |-> << >>,
                            error |-> ""]}
            ELSE {[cart |-> cart, status |-> status, log |-> << >>,
                   error |-> NoMatchingLink]}
        : find \in [{DynamicWhereClause(links[k]) : k \in DOMAIN links} -> BOOLEAN]}

\* the matchOrder branch of the hook: getMatches in a try, the re-read of
\* Order.error, and the catch
MatchBranch(cart, status, o, item) ==
    UNION {
        IF g.thrown # ""
        THEN {[cart |-> g.cart, status |-> [status EXCEPT ![o] = "PENDING"],
               log |-> << >>, error |-> MatchFailedPrefix \o g.thrown]}
        ELSE IF g.error # ""
        THEN {[cart |-> g.cart, status |-> [status EXCEPT ![o] = "PENDING"],
               log |-> << >>, error |-> g.error]}
        ELSE IF item.processOrder
        THEN PlaceFromHook(g.cart, status, o, "")
        ELSE {[cart |-> g.cart, status |-> status, log |-> << >>, error |-> ""]}
        : g \in GetMatches(cart, o, item.user, item.lineItems)}

AfterCreateFallingThrough(cart, status, o, item) ==
    IF item.linkOrder /\ Len(links) > 0
    THEN UNION {IF r.error = NoMatchingLink /\ item.matchOrder
                THEN MatchBranch(r.cart, r.status, o, item)
                ELSE {r} : r \in LinkBranch(cart, status, o, item)}
    ELSE IF item.matchOrder
    THEN MatchBranch(cart, status, o, item)
    ELSE IF ItemsOf(cart, o) # {} /\ item.processOrder
    THEN PlaceFromHook(cart, status, o, "")
    ELSE {[cart |-> cart, status |-> status, log |-> << >>, error |-> ""]}

\* Order.hooks.afterOperation for operation create
AfterCreate(cart, status, o, item) ==
    IF item.linkOrder /\ Len(links) > 0
    THEN LinkBranch(cart, status, o, item)
    ELSE IF item.matchOrder
    THEN MatchBranch(cart, status, o, item)
    ELSE IF ItemsOf(cart, o) # {} /\ item.processOrder
    THEN PlaceFromHook(cart, status, o, "")
    ELSE {[cart |-> cart, status |-> status, log |-> << >>, error |-> ""]}

\* Order.createOne with the data given: Order.status is a text field and
\* takes any string; then the hook
InsertOrder(o, status, user, lineItems, initialCart, linkOrder, matchOrder, processOrder) ==
    /\ ~orderRow[o].created
    /\ LET item == [created |-> TRUE, status |-> status, user |-> user,
                    linkOrder |-> linkOrder,
                    matchOrder |-> matchOrder, processOrder |-> processOrder,
                    lineItems |-> lineItems, initialCart |-> initialCart,
                    error |-> ""]
           cart0 == cartItems \o [k \in DOMAIN initialCart |-> NewCartItem(o, initialCart[k])]
       IN  \E r \in AfterCreate(cart0, [orderStatus EXCEPT ![o] = status], o, item) :
              /\ cartItems' = r.cart
              /\ orderStatus' = r.status
              /\ log' = r.log
              /\ orderRow' = [orderRow EXCEPT ![o] = [item EXCEPT !.error = r.error]]

\* Order create with status PENDING, the lineItems, the three flags and
\* nested cartItems on the channels of initialCart, then the hook
CreateOrder(o, user, lineItems, initialCart, linkOrder, matchOrder, processOrder) ==
    /\ InsertOrder(o, "PENDING", user, lineItems, initialCart,
                   linkOrder, matchOrder, processOrder)
    /\ UNCHANGED <<runs, matchVars, links, linkMode, matchOutput, adapterCall, webhook, oauthVars>>

\* the state before the Order is created
InitCreate ==
    /\ cartItems = << >>
    /\ orderStatus = [o \in Orders |-> "PENDING"]
    /\ log = << >>
    /\ runs = IdleRuns
    /\ shopItems = << >>
    /\ matches = << >>
    /\ matchResult = "none"
    /\ matchUpdate = NoCall
    /\ channelItems = << >>
    /\ links = << >>
    /\ linkMode = "sequential"
    /\ orderRow = [o \in Orders |-> NoOrder]
    /\ matchOutput = [k \in 1..MaxMatches |-> << >>]
    /\ adapterCall = NoCall
    /\ webhook = NoCall
    /\ OAuthInit

\* the lineItems of an Order the link routing is checked with: n copies of
\* one tuple (the linkOrder branch reads no field of a lineItem)
SameLineItems(n) == [k \in 1..n |-> CHOOSE t \in Tuples : t.productId = "pA"]

NextCreate ==
    \/ \E ch \in Channels, admits \in BOOLEAN : CreateLink(ch, admits)
    \/ \E m \in LinkModes : SetLinkMode(m)
    \/ \E o \in Orders, n \in 0..MaxLineItems,
          linkOrder \in BOOLEAN, matchOrder \in BOOLEAN, processOrder \in BOOLEAN :
          \E initialCart \in {<< >>} \cup {<<ch>> : ch \in Channels} :
             CreateOrder(o, "u1", SameLineItems(n), initialCart,
                         linkOrder, matchOrder, processOrder)

SpecCreate == InitCreate /\ [][NextCreate]_vars

-----------------------------------------------------------------------------
(* Properties of the link routing (specification SpecCreate) *)

\* the Links whose stored filter admits the Order
AdmittingLinks == {k \in DOMAIN links : links[k].admits}

\* the Order was created with linkOrder set for a Shop that has Links
LinkRouted(o) ==
    orderRow[o].created /\ orderRow[o].linkOrder /\ Len(links) > 0

\* the CartItems of the Order on channel ch that the hook created: those
\* on the channel less the ones the create input carried
RoutedTo(o, ch) ==
    Cardinality({i \in ItemsOf(cartItems, o) : cartItems[i].channel = ch})
    - Cardinality({k \in DOMAIN orderRow[o].initialCart : orderRow[o].initialCart[k] = ch})

\* C11: in sequential mode Order creation creates CartItems, one per
\* LineItem, for the target of the lowest-rank Link whose filter admits the
\* Order, and none for the target of any other Link.
C11_SequentialLowestRank ==
    \A o \in Orders :
        (LinkRouted(o) /\ linkMode = "sequential" /\ AdmittingLinks # {}) =>
            LET first == CHOOSE k \in AdmittingLinks :
                            \A j \in AdmittingLinks : links[k].rank <= links[j].rank
            IN  \A ch \in Channels :
                    RoutedTo(o, ch) = IF ch = links[first].channel
                                      THEN Len(orderRow[o].lineItems) ELSE 0

\* C12: in simultaneous mode every Link whose filter admits the Order gets
\* one CartItem per LineItem on its target, and a Link whose filter does not
\* admit it gets none.
C12_SimultaneousFullCopies ==
    \A o \in Orders :
        (LinkRouted(o) /\ linkMode = "simultaneous") =>
            \A ch \in Channels :
                RoutedTo(o, ch) =
                    Len(orderRow[o].lineItems)
                    * Cardinality({k \in AdmittingLinks : links[k].channel = ch})

\* C15: when linkOrder is set, the Shop has a Link and no Link's filter
\* admits the Order, creation records an error on the Order, leaves it
\* PENDING, creates no CartItem and calls no create-purchase.
C15_NoLinkMatches ==
    \A o \in Orders :
        (LinkRouted(o) /\ AdmittingLinks = {}) =>
            /\ orderRow[o].error # ""
            /\ orderStatus[o] = "PENDING"
            /\ \A ch \in Channels : RoutedTo(o, ch) = 0
            /\ log = << >>

-----------------------------------------------------------------------------
(* Match resolution at Order creation (specification SpecResolve): the     *)
(* Matches and their outputs are set up, then the Order is created         *)

MaxOutput == 1

\* Match create by user u1 from input.create tuples, before the Order exists
ResolveCreateMatch(create) ==
    /\ \A o \in Orders : ~orderRow[o].created
    /\ CreateMatch("u1", "none", TRUE, << >>, create)

NextResolve ==
    \/ \E create \in SeqsUpTo(Tuples, MaxInput) : ResolveCreateMatch(create)
    \/ \E k \in 1..MaxMatches, out \in SeqsUpTo(Channels, MaxOutput) :
          UpdateMatchOutput(k, out)
    \/ \E o \in Orders, user \in Users, lineItems \in SeqsUpTo(Tuples, MaxLineItems),
          processOrder \in BOOLEAN :
          CreateOrder(o, user, lineItems, << >>, TRUE, TRUE, processOrder)

SpecResolve == InitCreate /\ [][NextResolve]_vars

\* the Order went through the per-tuple fallback of getMatches and the
\* fallback found a Match for some of its lineItems and none for others
PartialFallback(o) ==
    LET row == orderRow[o]
        found == FallbackOutput(matches, shopItems, row.user, row.lineItems)
    IN  /\ row.created /\ row.matchOrder
        /\ ~(row.linkOrder /\ Len(links) > 0)
        /\ ExactMatch(matches, shopItems, row.user, row.lineItems) = 0
        /\ Len(row.lineItems) > 1
        /\ \E n \in DOMAIN found : found[n] # 0
        /\ \E n \in DOMAIN found : found[n] = 0

\* the lineItems of the Order the fallback found no Match for
UnmatchedTuples(o) ==
    LET row == orderRow[o]
        found == FallbackOutput(matches, shopItems, row.user, row.lineItems)
    IN  {row.lineItems[n] : n \in {n \in DOMAIN found : found[n] = 0}}

\* the pieces every Order.error the code writes is made of
ErrorTexts ==
    {"", NoMatchingLink, SomeNotMatched, NoMatchesFound, MatchFailedPrefix,
     UndefinedOutput, ProductError, MatchFailedPrefix \o UndefinedOutput,
     MatchFailedPrefix \o ProductError}

\* the error text e names the tuple t: the tuple's productId stands in it
NamesTuple(e, t) ==
    \E pre \in ErrorTexts, post \in ErrorTexts : e = pre \o t.productId \o post

\* C13: when the per-tuple fallback finds a Match for some but not all of
\* the Order's lineItems, match resolution fails (an error is recorded on
\* the Order) and no CartItem is created for the Order, wherever the
\* unmatched lineItem stands in the list.
C13_PartialMatchCreatesNothing ==
    \A o \in Orders :
        PartialFallback(o) =>
            /\ orderRow[o].error # ""
            /\ \A ch \in Channels : RoutedTo(o, ch) = 0

\* C14: when the per-tuple fallback leaves a lineItem unmatched, the error
\* recorded on the Order names every unmatched tuple and no matched one.
C14_ErrorNamesUnmatched ==
    \A o \in Orders :
        PartialFallback(o) =>
            \A n \in DOMAIN orderRow[o].lineItems :
                NamesTuple(orderRow[o].error, orderRow[o].lineItems[n])
                    <=> orderRow[o].lineItems[n] \in UnmatchedTuples(o)

-----------------------------------------------------------------------------
(* The adapter executors (specification SpecAdapter) *)

\* operation names a platform row maps to an adapter target
FunctionNames ==
    {"createPurchaseFunction", "getProductFunction", "addTrackingFunction",
     "searchOrdersFunction"}

\* platform[functionName]: a URL, the name of a bundled module, a name with
\* no module in the bundle, or nothing (AbsentPath)
UrlPaths == {"https://adapter.example/run"}
AbsentPath == "undefined"
AdapterPaths == UrlPaths \cup {"openfront", "shopify", "custom", AbsentPath}

\* functionPath.startsWith("http")
IsUrl(path) == path \in UrlPaths

\* the modules of the channel bundle and the operations each exports
ChannelBundle ==
    [openfront |-> {"createPurchaseFunction", "getProductFunction", "addTrackingFunction"},
     shopify   |-> {"createPurchaseFunction", "getProductFunction"}]

\* the modules of the shop bundle and the operations each exports
ShopBundle ==
    [openfront |-> {"addTrackingFunction", "getProductFunction", "searchOrdersFunction"},
     shopify   |-> {"addTrackingFunction", "getProductFunction", "searchOrdersFunction"}]

\* response.ok
ResponseOk(status) == status >= 200 /\ status <= 299

\* what the world does with a call: fetch rejects (network) or answers with
\* a status and a body that is JSON or not; the adapter function returns
\* or throws an Error with a message (cause, possibly empty)
HttpOutcomes ==
    {[network |-> TRUE, status |-> 0, body |-> "", throws |-> FALSE, cause |-> ""]}
    \cup {[network |-> FALSE, status |-> st, body |-> b, throws |-> FALSE, cause |-> ""] :
             st \in {200, 204, 404, 500}, b \in {"json", "not json"}}

FunctionOutcomes ==
    {[network |-> FALSE, status |-> 0, body |-> "", throws |-> FALSE, cause |-> ""]}
    \cup {[network |-> FALSE, status |-> 0, body |-> "", throws |-> TRUE, cause |-> c] :
             c \in {"declined", ""}}

\* an executor call ends by throwing an Error whose message is the
\* concatenation of parts
Thrown(executor, functionName, path, env, parts) ==
    [kind |-> "error", executor |-> executor, functionName |-> functionName,
     functionPath |-> path, env |-> env, message |-> parts, value |-> ""]

\* an executor call returns value
Returned(executor, functionName, path, env, value) ==
    [kind |-> "result", executor |-> executor, functionName |-> functionName,
     functionPath |-> path, env |-> env, message |-> << >>, value |-> value]

\* the part of both executors before the adapter function is called; "call"
\* stands for reaching the try block
BeforeCall(bundle, executor, functionName, path, env) ==
    IF path = AbsentPath
    THEN Thrown(executor, functionName, path, env,
                <<"Cannot read properties of undefined (reading 'startsWith')">>)
    ELSE IF IsUrl(path)
    THEN IF env.network
         THEN Thrown(executor, functionName, path, env, <<"fetch failed">>)
         ELSE IF ~ResponseOk(env.status)
         THEN Thrown(executor, functionName, path, env,
                     <<"HTTP request failed: ", ToString(env.status)>>)
         ELSE IF env.body # "json"
         THEN Thrown(executor, functionName, path, env, <<"Unexpected end of JSON input">>)
         ELSE Returned(executor, functionName, path, env, env.body)
    ELSE IF path \notin DOMAIN bundle
    THEN Thrown(executor, functionName, path, env,
                <<"Module not found in bundle: ", path>>)
    ELSE IF functionName \notin bundle[path]
    THEN Thrown(executor, functionName, path, env,
                <<"Function ", functionName, " not found in adapter ", path>>)
    ELSE [kind |-> "call"]

\* executeChannelAdapterFunction2 with the catch returning undefined
ExecuteChannelSwallowing(functionName, path, env) ==
    LET b == BeforeCall(ChannelBundle, "channel", functionName, path, env)
    IN  IF b.kind # "call" THEN b
        ELSE Returned("channel", functionName, path, env,
                      IF env.throws THEN "undefined" ELSE "returned")

\* executeChannelAdapterFunction2
ExecuteChannelAdapterFunction2(functionName, path, env) ==
    LET b == BeforeCall(ChannelBundle, "channel", functionName, path, env)
    IN  IF b.kind # "call" THEN b
        ELSE IF env.throws
        THEN Thrown("channel", functionName, path, env,
                    <<"Error executing ", functionName, " for platform ", path, ": ",
                      env.cause>>)
        ELSE Returned("channel", functionName, path, env, "returned")

\* executeShopAdapterFunction2
ExecuteShopAdapterFunction2(functionName, path, env) ==
    LET b == BeforeCall(ShopBundle, "shop", functionName, path, env)
    IN  IF b.kind # "call" THEN b
        ELSE IF env.throws
        THEN Thrown("shop", functionName, path, env,
                    <<"Error executing ", functionName, " for platform ", path, ": ",
                      IF env.cause # "" THEN env.cause ELSE "Unknown error">>)
        ELSE Returned("shop", functionName, path, env, "returned")

\* the outcomes the world can give a call to path
OutcomesFor(path) ==
    IF IsUrl(path) THEN HttpOutcomes ELSE FunctionOutcomes

\* a call of the channel executor
CallChannelAdapter(functionName, path, env) ==
    /\ adapterCall' = ExecuteChannelAdapterFunction2(functionName, path, env)
    /\ UNCHANGED <<orderVars, runs, matchVars, createVars, webhook, oauthVars>>

\* a call of the shop executor
CallShopAdapter(functionName, path, env) ==
    /\ adapterCall' = ExecuteShopAdapterFunction2(functionName, path, env)
    /\ UNCHANGED <<orderVars, runs, matchVars, createVars, webhook, oauthVars>>

NextAdapter ==
    \/ \E functionName \in FunctionNames, path \in AdapterPaths :
          \E env \in OutcomesFor(path) : CallChannelAdapter(functionName, path, env)
    \/ \E functionName \in FunctionNames, path \in AdapterPaths :
          \E env \in OutcomesFor(path) : CallShopAdapter(functionName, path, env)

SpecAdapter == Init /\ [][NextAdapter]_vars

\* the message made of parts holds the text x
Carries(parts, x) == \E k \in DOMAIN parts : parts[k] = x

\* the bundle of the executor that was called
BundleOf(c) == IF c.executor = "channel" THEN ChannelBundle ELSE ShopBundle

\* the call reached a registered adapter function
Registered(c) ==
    /\ c.functionPath \in DOMAIN BundleOf(c)
    /\ c.functionName \in BundleOf(c)[c.functionPath]

\* C19: an executor call that failed ends with an error, never with a
\* result: a response outside 2xx, a target with no module in the bundle or
\* a module without the operation, and an adapter function that throws; the
\* error for a throwing function carries the operation name, the target and
\* the cause. A call that ends with a result did not fail.
C19_FailuresAreErrors ==
    adapterCall.kind # "none" =>
        LET c == adapterCall
        IN  /\ (IsUrl(c.functionPath) /\ (c.env.network \/ ~ResponseOk(c.env.status)))
                  => c.kind = "error"
            /\ (~IsUrl(c.functionPath) /\ ~Registered(c)) => c.kind = "error"
            /\ (Registered(c) /\ c.env.throws) =>
                  /\ c.kind = "error"
                  /\ Carries(c.message, c.functionName)
                  /\ Carries(c.message, c.functionPath)
                  /\ c.env.cause # "" => Carries(c.message, c.env.cause)
            /\ c.kind = "result" =>
                  \/ IsUrl(c.functionPath) /\ ResponseOk(c.env.status) /\ c.env.body = "json"
                  \/ Registered(c) /\ ~c.env.throws

\* C19 witness: a registered adapter function threw and the executor's
\* error carries the operation name, the target and the cause.
C19_Witness ==
    /\ adapterCall.kind = "error"
    /\ Registered(adapterCall)
    /\ adapterCall.env.throws /\ adapterCall.env.cause = "declined"
    /\ Carries(adapterCall.message, "declined")

-----------------------------------------------------------------------------
(* The webhook handlers of the bundled adapters (specification SpecWebhook) *)

\* the signature header of a webhook: not sent, sent but not the HMAC of
\* the payload under the platform's secret, or sent and right
Signatures == {"absent", "invalid", "valid"}

\* what the handlers read of a payload: the event type is the supported
\* one, order.id is there, the shipping labels are there, the first label
\* has tracking number and carrier, and the body part the handler maps over
\* (event.data, event.line_items) is there
Payloads ==
    [supported : BOOLEAN, orderId : BOOLEAN, labels : BOOLEAN,
     tracking : BOOLEAN, body : BOOLEAN]

Handlers ==
    {"channel/openfront/createTrackingWebhookHandler",
     "channel/openfront/fulfillmentUpdateWebhookHandler",
     "channel/shopify/createTrackingWebhookHandler",
     "channel/shopify/cancelPurchaseWebhookHandler",
     "shop/openfront/createOrderWebhookHandler",
     "shop/openfront/cancelOrderWebhookHandler",
     "shop/shopify/createOrderWebhookHandler",
     "shop/shopify/cancelOrderWebhookHandler"}

\* the handler throws
Rejected(handler, signature, payload, message) ==
    [kind |-> "error", handler |-> handler, signature |-> signature,
     payload |-> payload, type |-> "", message |-> message]

\* the handler returns the canonical event
Normalized(handler, signature, payload, type) ==
    [kind |-> "event", handler |-> handler, signature |-> signature,
     payload |-> payload, type |-> type, message |-> ""]

\* the test every handler but one starts with: the header is there
HeaderPresent(signature) == signature # "absent"

\* createTrackingWebhookHandler of the OpenFront channel adapter
OpenfrontTracking(handler, signature, payload) ==
    IF ~payload.supported
    THEN Rejected(handler, signature, payload, "Unsupported event type")
    ELSE IF ~payload.orderId
    THEN Rejected(handler, signature, payload, "Missing order.id in webhook payload")
    ELSE IF ~payload.labels
    THEN Rejected(handler, signature, payload, "Missing shipping labels in fulfillment data")
    ELSE IF ~payload.tracking
    THEN Rejected(handler, signature, payload,
                  "Missing tracking number or carrier in shipping label")
    ELSE Normalized(handler, signature, payload, "fulfillment_created")

\* a handler that tests the header and then reads the body part; needsBody
\* says whether it throws on a payload without that part
HeaderThenBody(handler, signature, payload, missing, needsBody, type) ==
    IF ~HeaderPresent(signature)
    THEN Rejected(handler, signature, payload, missing)
    ELSE IF needsBody /\ ~payload.body
    THEN Rejected(handler, signature, payload, "Cannot read properties of undefined")
    ELSE Normalized(handler, signature, payload, type)

\* the eight handlers
HandleWebhook(handler, signature, payload) ==
    CASE handler = "channel/openfront/createTrackingWebhookHandler" ->
            OpenfrontTracking(handler, signature, payload)
      [] handler = "channel/openfront/fulfillmentUpdateWebhookHandler" ->
            HeaderThenBody(handler, signature, payload, "Missing webhook signature",
                           TRUE, "fulfillment_update")
      [] handler = "channel/shopify/createTrackingWebhookHandler" ->
            HeaderThenBody(handler, signature, payload, "Missing webhook HMAC",
                           TRUE, "fulfillment_created")
      [] handler = "channel/shopify/cancelPurchaseWebhookHandler" ->
            HeaderThenBody(handler, signature, payload, "Missing webhook HMAC",
                           FALSE, "purchase_cancelled")
      [] handler = "shop/openfront/createOrderWebhookHandler" ->
            HeaderThenBody(handler, signature, payload, "Missing webhook signature",
                           TRUE, "order_created")
      [] handler = "shop/openfront/cancelOrderWebhookHandler" ->
            HeaderThenBody(handler, signature, payload, "Missing webhook signature",
                           TRUE, "order_cancelled")
      [] handler = "shop/shopify/createOrderWebhookHandler" ->
            HeaderThenBody(handler, signature, payload, "Missing webhook HMAC",
                           TRUE, "order_created")
      [] handler = "shop/shopify/cancelOrderWebhookHandler" ->
            HeaderThenBody(handler, signature, payload, "Missing webhook HMAC",
                           FALSE, "order_cancelled")

\* a webhook arrives and its handler runs
ReceiveWebhook(handler, signature, payload) ==
    /\ webhook' = HandleWebhook(handler, signature, payload)
    /\ UNCHANGED <<orderVars, runs, matchVars, createVars, adapterCall, oauthVars>>

NextWebhook ==
    \E handler \in Handlers, signature \in Signatures, payload \in Payloads :
        ReceiveWebhook(handler, signature, payload)

SpecWebhook == Init /\ [][NextWebhook]_vars

\* C20: a webhook whose signature is missing or invalid is rejected: its
\* handler ends with an error and makes no canonical event.
C20_BadSignatureRejected ==
    (webhook.kind # "none" /\ webhook.signature # "valid") => webhook.kind = "error"

-----------------------------------------------------------------------------
(* The PKCE verifier store and the Salesforce OAuth context store:          *)
(* src/unnamed/part_000, lines 104-232                                      *)

\* const PKCE_STORE_TTL_MS = 5 * 60 * 1000: the clock of the model counts in
\* units of five minutes
PKCE_STORE_TTL_MS == 1

\* const { ttlMs = PKCE_STORE_TTL_MS, alias } = options: the ttlMs of a store
\* call, the default when the option is left out
TtlOptions == (0..MaxTtl) \cup {PKCE_STORE_TTL_MS}

\* a call of one of the four functions, its result and the console message
\* it ends with: calls carry alternating marks, so that the same call made
\* twice in a row is two steps
Called(kind, key, result, logged) ==
    [kind |-> kind, key |-> key, result |-> result, logged |-> logged,
     mark |-> 1 - oauthCall.mark]

\* the loop over aliases.entries() of the two consume functions: every alias
\* of entryKey goes, and so does the alias entry named entryKey
DeleteAliases(aliases, entryKey) ==
    [a \in Keys |-> IF aliases[a] = entryKey \/ a = entryKey
                    THEN Undefined ELSE aliases[a]]

\* a plausible slip: the alias Map is never asked
EntryKeyDirect(held, aliases, key) == key

\* let entryKey = key; let entry = store.get(entryKey); if (!entry) { const
\* aliasTarget = aliases.get(entryKey); if (aliasTarget) entryKey = aliasTarget }
\* with held = the keys the store holds
EntryKey(held, aliases, key) ==
    IF key \notin held /\ aliases[key] # Undefined THEN aliases[key] ELSE key

PkceKeys == {k \in Keys : pkceStore[k] # NoEntry}
ContextKeys == {k \in Keys : salesforceOAuthContextStore[k] # Undefined}

\* a plausible slip: the boundary instant still counts as alive
ExpiredAfter(entry, t) == entry.expiresAt < t

\* if (entry.expiresAt <= Date.now())
Expired(entry, t) == entry.expiresAt <= t

\* what a successful consume by entryKey spends: the key, and the aliases
\* that named it
Spends(aliases, entryKey) ==
    {<<entryKey, "key">>} \cup {<<a, "alias">> : a \in {b \in Keys : aliases[b] = entryKey}}

\* storePkceVerifier(key, verifier, { ttlMs, alias }); "" is a missing argument
StorePkceVerifier(key, verifier, ttlMs, alias) ==
    /\ IF key = "" \/ verifier = ""
       THEN /\ oauthCall' = [ttlMs |-> ttlMs] @@
                    Called("storePkceVerifier", key, Undefined, "skipped")
            /\ UNCHANGED <<pkceStore, pkceAliases, spent>>
       ELSE /\ oauthCall' = [ttlMs |-> ttlMs] @@
                    Called("storePkceVerifier", key, Undefined, "stored")
            /\ pkceStore' =
                 [pkceStore EXCEPT ![key] =
                     [verifier |-> verifier, expiresAt |-> now + ttlMs]]
            /\ pkceAliases' = IF alias # "" /\ alias # key
                              THEN [pkceAliases EXCEPT ![alias] = key]
                              ELSE pkceAliases
            /\ spent' = [spent EXCEPT !["pkce"] = {}]
    /\ UNCHANGED <<salesforceOAuthContextStore, salesforceOAuthContextAliases, now>>
    /\ UNCHANGED <<orderVars, runs, matchVars, createVars, adapterCall, webhook>>

\* a plausible slip: the verifier is handed out and stays in the store
ConsumePkceVerifierKeeping(key) ==
    /\ IF key = ""
       THEN oauthCall' = Called("consumePkceVerifier", key, Undefined, "skipped")
       ELSE LET entryKey == EntryKey(PkceKeys, pkceAliases, key)
                entry == pkceStore[entryKey]
            IN  IF entry = NoEntry
                THEN oauthCall' =
                        Called("consumePkceVerifier", key, Undefined, "not found")
                ELSE IF Expired(entry, now)
                     THEN oauthCall' =
                             Called("consumePkceVerifier", key, Undefined, "expired")
                     ELSE oauthCall' =
                             Called("consumePkceVerifier", key, entry.verifier, "consumed")
    /\ spent' = IF oauthCall'.logged = "consumed"
                THEN [spent EXCEPT !["pkce"] =
                         @ \cup Spends(pkceAliases, EntryKey(PkceKeys, pkceAliases, key))]
                ELSE spent
    /\ UNCHANGED <<pkceStore, pkceAliases>>
    /\ UNCHANGED <<salesforceOAuthContextStore, salesforceOAuthContextAliases, now>>
    /\ UNCHANGED <<orderVars, runs, matchVars, createVars, adapterCall, webhook>>

\* consumePkceVerifier(key)
ConsumePkceVerifier(key) ==
    /\ IF key = ""
       THEN /\ oauthCall' = Called("consumePkceVerifier", key, Undefined, "skipped")
            /\ UNCHANGED <<pkceStore, pkceAliases, spent>>
       ELSE LET entryKey == EntryKey(PkceKeys, pkceAliases, key)
                entry == pkceStore[entryKey]
            IN  IF entry = NoEntry
                THEN /\ oauthCall' =
                          Called("consumePkceVerifier", key, Undefined, "not found")
                     /\ UNCHANGED <<pkceStore, pkceAliases, spent>>
                ELSE /\ pkceStore' = [pkceStore EXCEPT ![entryKey] = NoEntry]
                     /\ pkceAliases' = DeleteAliases(pkceAliases, entryKey)
                     /\ IF Expired(entry, now)
                        THEN /\ oauthCall' = Called("consumePkceVerifier", key,
                                                    Undefined, "expired")
                             /\ UNCHANGED spent
                        ELSE /\ oauthCall' = Called("consumePkceVerifier", key,
                                                    entry.verifier, "consumed")
                             /\ spent' = [spent EXCEPT !["pkce"] =
                                             @ \cup Spends(pkceAliases, entryKey)]
    /\ UNCHANGED <<salesforceOAuthContextStore, salesforceOAuthContextAliases, now>>
    /\ UNCHANGED <<orderVars, runs, matchVars, createVars, adapterCall, webhook>>

\* storeSalesforceOAuthContext(key, context, { alias })
StoreSalesforceOAuthContext(key, context, alias) ==
    /\ IF key = ""
       THEN /\ oauthCall' =
                 Called("storeSalesforceOAuthContext", key, Undefined, "skipped")
            /\ UNCHANGED <<salesforceOAuthContextStore,
                           salesforceOAuthContextAliases, spent>>
       ELSE /\ oauthCall' =
                 Called("storeSalesforceOAuthContext", key, Undefined, "stored")
            /\ salesforceOAuthContextStore' =
                 [salesforceOAuthContextStore EXCEPT ![key] = context]
            /\ salesforceOAuthContextAliases' =
                 IF alias # "" /\ alias # key
                 THEN [salesforceOAuthContextAliases EXCEPT ![alias] = key]
                 ELSE salesforceOAuthContextAliases
            /\ spent' = [spent EXCEPT !["context"] = {}]
    /\ UNCHANGED <<pkceStore, pkceAliases, now>>
    /\ UNCHANGED <<orderVars, runs, matchVars, createVars, adapterCall, webhook>>

\* consumeSalesforceOAuthContext(key)
ConsumeSalesforceOAuthContext(key) ==
    /\ IF key = ""
       THEN /\ oauthCall' =
                 Called("consumeSalesforceOAuthContext", key, Undefined, "skipped")
            /\ UNCHANGED <<salesforceOAuthContextStore,
                           salesforceOAuthContextAliases, spent>>
       ELSE LET entryKey == EntryKey(ContextKeys,
                                     salesforceOAuthContextAliases, key)
                entry == salesforceOAuthContextStore[entryKey]
            IN  IF entry = Undefined
                THEN /\ oauthCall' = Called("consumeSalesforceOAuthContext", key,
                                            Undefined, "not found")
                     /\ UNCHANGED <<salesforceOAuthContextStore,
                                    salesforceOAuthContextAliases, spent>>
                ELSE /\ salesforceOAuthContextStore' =
                          [salesforceOAuthContextStore EXCEPT ![entryKey] = Undefined]
                     /\ salesforceOAuthContextAliases' =
                          DeleteAliases(salesforceOAuthContextAliases, entryKey)
                     /\ oauthCall' = Called("consumeSalesforceOAuthContext", key,
                                            entry, "consumed")
                     /\ spent' = [spent EXCEPT !["context"] =
                                     @ \cup Spends(salesforceOAuthContextAliases, entryKey)]
    /\ UNCHANGED <<pkceStore, pkceAliases, now>>
    /\ UNCHANGED <<orderVars, runs, matchVars, createVars, adapterCall, webhook>>

\* time passes between two calls
Tick ==
    /\ now < MaxNow
    /\ now' = now + 1
    /\ UNCHANGED <<pkceStore, pkceAliases, salesforceOAuthContextStore,
                   salesforceOAuthContextAliases, oauthCall, spent>>
    /\ UNCHANGED <<orderVars, runs, matchVars, createVars, adapterCall, webhook>>

NextPkce ==
    \/ \E key \in Keys \cup {""}, verifier \in Verifiers \cup {""},
          ttlMs \in TtlOptions, alias \in Keys \cup {""} :
          StorePkceVerifier(key, verifier, ttlMs, alias)
    \/ \E key \in Keys \cup {""} : ConsumePkceVerifier(key)
    \/ Tick

SpecPkce == Init /\ [][NextPkce]_vars

\* both stores side by side, one value each
NextOAuth ==
    \/ \E key \in Keys \cup {""}, ttlMs \in TtlOptions, alias \in Keys \cup {""} :
          StorePkceVerifier(key, "v1", ttlMs, alias)
    \/ \E key \in Keys \cup {""} : ConsumePkceVerifier(key)
    \/ \E key \in Keys \cup {""}, alias \in Keys \cup {""} :
          StoreSalesforceOAuthContext(key, "ctx1", alias)
    \/ \E key \in Keys \cup {""} : ConsumeSalesforceOAuthContext(key)
    \/ Tick

SpecOAuth == Init /\ [][NextOAuth]_vars

-----------------------------------------------------------------------------
(* Properties of the PKCE verifier store *)

\* the step is a call of consumePkceVerifier
PkceConsumeStep == oauthCall' # oauthCall /\ oauthCall'.kind = "consumePkceVerifier"

\* the keys a verifier was consumed by since the last store, and their aliases
SpentKeys == {p[1] : p \in spent["pkce"]}

\* a consume by a key that holds an unexpired verifier returns that verifier
FirstConsumeReturns ==
    \A k \in Keys :
        (oauthCall'.key = k /\ pkceStore[k] # NoEntry /\ pkceStore[k].expiresAt > now)
            => oauthCall'.result = pkceStore[k].verifier

\* C21: a stored verifier is consumed at most once: the first consume by its
\* key before expiry returns it, and every later consume by that key or by
\* its alias returns undefined until a new verifier is stored.
C21_ConsumedAtMostOnce ==
    [][PkceConsumeStep =>
          /\ FirstConsumeReturns
          /\ oauthCall'.key \in SpentKeys => oauthCall'.result = Undefined]_vars

\* C21 as amended: the same, but a later consume by the alias returns
\* undefined only while no verifier is stored under the alias as a key of
\* its own.
C21_ConsumedOnceUnlessAliasIsKey ==
    [][PkceConsumeStep =>
          /\ FirstConsumeReturns
          /\ \A k \in Keys :
                (/\ oauthCall'.key = k
                 /\ \/ <<k, "key">> \in spent["pkce"]
                    \/ <<k, "alias">> \in spent["pkce"] /\ pkceStore[k] = NoEntry)
                    => oauthCall'.result = Undefined]_vars

\* a verifier was consumed by its key, and a later consume by its alias found nothing
C21_Witness ==
    /\ oauthCall.kind = "consumePkceVerifier"
    /\ oauthCall.result = Undefined
    /\ <<oauthCall.key, "alias">> \in spent["pkce"]
    /\ \E k \in Keys \ {oauthCall.key} : <<k, "key">> \in spent["pkce"]

\* the key a consume by k reads: k when the store holds it, else its alias target
ReadBy(k) == IF pkceStore[k] # NoEntry THEN k ELSE pkceAliases[k]

\* the step is a storePkceVerifier call that stored with ttlMs = 0
PkceStoredWithoutTtl ==
    /\ oauthCall' # oauthCall
    /\ oauthCall'.kind = "storePkceVerifier"
    /\ oauthCall'.logged = "stored"
    /\ oauthCall'.ttlMs = 0

\* C22: consumePkceVerifier never returns a verifier whose time-to-live has
\* elapsed (expiresAt <= now): it returns undefined, and the expired entry and
\* its aliases leave the store; a verifier stored with ttlMs = 0 is expired
\* from the start, the clock never going back, and so is never returned.
C22_ExpiredNeverReturned ==
    [][/\ PkceConsumeStep =>
            /\ oauthCall'.result # Undefined =>
                  \E k \in Keys :
                      /\ pkceStore[k] # NoEntry
                      /\ pkceStore'[k] = NoEntry
                      /\ pkceStore[k].verifier = oauthCall'.result
                      /\ pkceStore[k].expiresAt > now
            /\ \A k \in Keys, t \in Keys :
                  (/\ oauthCall'.key = k
                   /\ ReadBy(k) = t
                   /\ pkceStore[t] # NoEntry
                   /\ pkceStore[t].expiresAt <= now)
                      => /\ oauthCall'.result = Undefined
                         /\ pkceStore'[t] = NoEntry
                         /\ \A a \in Keys : pkceAliases'[a] # t
       /\ PkceStoredWithoutTtl => pkceStore'[oauthCall'.key].expiresAt <= now'
       /\ now' >= now]_vars

\* an expired verifier was asked for, by its alias, and the call found it expired
C22_Witness ==
    /\ oauthCall.kind = "consumePkceVerifier"
    /\ oauthCall.logged = "expired"
    /\ oauthCall.result = Undefined
    /\ pkceStore = [k \in Keys |-> NoEntry]
    /\ now > 0

-----------------------------------------------------------------------------
(* Properties of both stores: consuming by alias *)

\* the step is a call of consumeSalesforceOAuthContext
ContextConsumeStep ==
    oauthCall' # oauthCall /\ oauthCall'.kind = "consumeSalesforceOAuthContext"

\* the key or alias asked for was spent since the last store, and nothing is
\* stored under it directly
SpentIn(store, held, k) ==
    \/ <<k, "key">> \in spent[store]
    \/ <<k, "alias">> \in spent[store] /\ k \notin held

\* a value is stored under k with alias a, and nothing directly under a
StoredWithAlias(held, aliases, k, a) ==
    a # k /\ a \notin held /\ aliases[a] = k /\ k \in held

\* C23: in both stores, when a value is stored under key K with alias A and
\* nothing is stored directly under A, consuming by A returns the value
\* stored under K, and afterwards consuming by K or by A returns undefined.
C23_AliasConsumes ==
    [][/\ PkceConsumeStep =>
            \A k \in Keys :
               /\ \A a \in Keys :
                     (oauthCall'.key = a /\ StoredWithAlias(PkceKeys, pkceAliases, k, a))
                        => oauthCall'.result = pkceStore[k].verifier
               /\ (oauthCall'.key = k /\ SpentIn("pkce", PkceKeys, k))
                        => oauthCall'.result = Undefined
       /\ ContextConsumeStep =>
            \A k \in Keys :
               /\ \A a \in Keys :
                     (/\ oauthCall'.key = a
                      /\ StoredWithAlias(ContextKeys, salesforceOAuthContextAliases, k, a))
                        => oauthCall'.result = salesforceOAuthContextStore[k]
               /\ (oauthCall'.key = k /\ SpentIn("context", ContextKeys, k))
                        => oauthCall'.result = Undefined]_vars

\* C23 as amended: the same, the PKCE verifier being returned by alias only
\* before its expiry.
C23_AliasConsumesUnexpired ==
    [][/\ PkceConsumeStep =>
            \A k \in Keys :
               /\ \A a \in Keys :
                     (/\ oauthCall'.key = a
                      /\ StoredWithAlias(PkceKeys, pkceAliases, k, a)
                      /\ pkceStore[k].expiresAt > now)
                        => oauthCall'.result = pkceStore[k].verifier
               /\ (oauthCall'.key = k /\ SpentIn("pkce", PkceKeys, k))
                        => oauthCall'.result = Undefined
       /\ ContextConsumeStep =>
            \A k \in Keys :
               /\ \A a \in Keys :
                     (/\ oauthCall'.key = a
                      /\ StoredWithAlias(ContextKeys, salesforceOAuthContextAliases, k, a))
                        => oauthCall'.result = salesforceOAuthContextStore[k]
               /\ (oauthCall'.key = k /\ SpentIn("context", ContextKeys, k))
                        => oauthCall'.result = Undefined]_vars

\* a verifier went out by its alias, a context has just gone out by its
\* alias, and a consume of the context by its key is what comes next
C23_Witness ==
    /\ oauthCall.kind = "consumeSalesforceOAuthContext"
    /\ oauthCall.result # Undefined
    /\ <<oauthCall.key, "alias">> \in spent["context"]
    /\ <<oauthCall.key, "key">> \notin spent["context"]
    /\ \E a \in Keys : /\ <<a, "alias">> \in spent["pkce"]
                       /\ <<a, "key">> \notin spent["pkce"]

-----------------------------------------------------------------------------
(* Orders created from a storefront's order-created webhook                 *)
(* (specification SpecIngest)                                               *)

\* the storefront handlers of the order-created webhook
OrderCreatedHandlers ==
    {"shop/openfront/createOrderWebhookHandler", "shop/shopify/createOrderWebhookHandler"}

\* what both createOrderWebhookHandler functions return besides the buyer
\* fields and the lineItems: status: "INPROCESS", linkOrder: true,
\* matchOrder: true, processOrder: true
OrderCreatedOutput ==
    [status |-> "INPROCESS", linkOrder |-> TRUE, matchOrder |-> TRUE,
     processOrder |-> TRUE]

\* the payloads of an order-created webhook: the two handlers read the body
\* part only
OrderPayloads ==
    {p \in Payloads : p.supported /\ p.orderId /\ p.labels /\ p.tracking}

\* the webhook ingress: the handler runs, and the Order is created from what
\* it returns; a rejected webhook creates nothing
IngestOrderWebhook(o, handler, signature, payload, lineItems) ==
    /\ ~orderRow[o].created
    /\ webhook' = HandleWebhook(handler, signature, payload)
    /\ IF webhook'.kind = "event"
       THEN InsertOrder(o, OrderCreatedOutput.status, "u1", lineItems, << >>,
                        OrderCreatedOutput.linkOrder, OrderCreatedOutput.matchOrder,
                        OrderCreatedOutput.processOrder)
       ELSE UNCHANGED <<cartItems, orderStatus, log, orderRow>>
    /\ UNCHANGED <<runs, matchVars, links, linkMode, matchOutput, adapterCall, oauthVars>>

NextIngest ==
    \/ \E ch \in Channels, admits \in BOOLEAN : CreateLink(ch, admits)
    \/ \E m \in LinkModes : SetLinkMode(m)
    \/ \E o \in Orders, handler \in OrderCreatedHandlers,
          signature \in {"absent", "valid"}, payload \in OrderPayloads,
          n \in 1..MaxLineItems :
          IngestOrderWebhook(o, handler, signature, payload, SameLineItems(n))

SpecIngest == InitCreate /\ [][NextIngest]_vars

\* C24: in every reachable state every Order's status is one of PENDING,
\* AWAITING, COMPLETE, CANCELLED, the Orders created from the output of an
\* order-created webhook handler included.
C24_StatusIsOneOfFour ==
    \A o \in Orders : orderRow[o].created => orderStatus[o] \in Statuses

-----------------------------------------------------------------------------
(* Properties of the two lookups of getMatches *)

\* the Order was created and its hook took the matchOrder branch
MatchResolved(o) ==
    /\ orderRow[o].created /\ orderRow[o].matchOrder
    /\ ~(orderRow[o].linkOrder /\ Len(links) > 0)

\* the (productId, variantId, quantity) tuples there are
LineTuples == {LineTuple(t) : t \in Tuples}

\* how often the tuple stands among the lineItems, and among the inputs of a Match
LineCount(lineItems, lt) ==
    Cardinality({n \in DOMAIN lineItems : LineTuple(lineItems[n]) = lt})
InputCount(items, m, lt) ==
    Cardinality({i \in m.input : LineTuple(items[i].tuple) = lt})

\* the multiset of the Match's input tuples is the multiset of the lineItems' tuples
SameMultiset(items, m, lineItems) ==
    \A lt \in LineTuples : InputCount(items, m, lt) = LineCount(lineItems, lt)

\* C25: the exact-match fast path selects a Match only if the multiset of
\* (productId, variantId, quantity) tuples of its input ShopItems equals the
\* multiset of the Order's LineItem tuples; for two LineItems with the same
\* tuple, a Match of that tuple and a different one is not selected.
C25_ExactMatchIsMultisetEqual ==
    \A o \in Orders :
        MatchResolved(o) =>
            LET filt == ExactMatch(matches, shopItems, orderRow[o].user,
                                   orderRow[o].lineItems)
            IN  filt # 0 => SameMultiset(shopItems, matches[filt], orderRow[o].lineItems)

\* C26: the per-tuple fallback runs only when there is no exact match and
\* the Order has more than one LineItem, and for each LineItem tuple it
\* selects only a Match whose input is exactly one ShopItem equal to that
\* tuple: never a Match with no input or with further inputs.
C26_FallbackSelectsSingletons ==
    \A o \in Orders :
        MatchResolved(o) =>
            LET row == orderRow[o]
                filt == ExactMatch(matches, shopItems, row.user, row.lineItems)
                found == FallbackOutput(matches, shopItems, row.user, row.lineItems)
            IN  /\ row.error = SomeNotMatched => (filt = 0 /\ Len(row.lineItems) > 1)
                /\ (filt = 0 /\ Len(row.lineItems) > 1) =>
                      \A n \in DOMAIN found :
                          found[n] # 0 =>
                              /\ Cardinality(matches[found[n]].input) = 1
                              /\ \A i \in matches[found[n]].input :
                                    LineTuple(shopItems[i].tuple)
                                       = LineTuple(row.lineItems[n])

-----------------------------------------------------------------------------
(* Links created and deleted (specification SpecLinks) *)

\* Link delete: the list has no delete hook, the row goes and the other
\* rows keep their ranks
DeleteLink(k) ==
    /\ k \in DOMAIN links
    /\ \A o \in Orders : ~orderRow[o].created
    /\ links' = SubSeq(links, 1, k - 1) \o SubSeq(links, k + 1, Len(links))
    /\ UNCHANGED <<orderVars, runs, matchVars, linkMode, orderRow, matchOutput, adapterCall, webhook, oauthVars>>

NextLinks ==
    \/ \E ch \in Channels, admits \in BOOLEAN : CreateLink(ch, admits)
    \/ \E k \in 1..MaxLinks : DeleteLink(k)

SpecLinks == InitCreate /\ [][NextLinks]_vars

\* the greatest rank among the Links, 0 when there is none
MaxRank(ls) ==
    IF ls = << >> THEN 0
    ELSE CHOOSE r \in {ls[k].rank : k \in DOMAIN ls} :
            \A k \in DOMAIN ls : ls[k].rank <= r

NoSharedRank(ls) ==
    \A i \in DOMAIN ls, j \in DOMAIN ls : i # j => ls[i].rank # ls[j].rank

\* C27: a new Link gets the rank max(rank of the storefront's Links) + 1,
\* greater than every existing rank, and after any sequence of Link creations
\* and deletions no two Links of the storefront share a rank.
C27_RankIsMaxPlusOne ==
    [][links' # links =>
          /\ Len(links') > Len(links) =>
                links'[Len(links')].rank = MaxRank(links) + 1
          /\ NoSharedRank(links')]_vars

-----------------------------------------------------------------------------
(* ShopItem and ChannelItem rows: Match create, upsertMatch and matchOrder, *)
(* one at a time                                                           *)

\* the users whose role has canManageMatches
ManageMatches == {"u1"}
\* the users whose role has canSeeOtherOrders
SeeOtherOrders == {"u1"}

\* the product every CartItem of the model is for
CartProduct == [productId |-> "pA", variantId |-> "v1", quantity |-> 1]

\* the Match rows the three operations may leave
MaxItemMatches == 1
\* the entries of an input.create list and the lineItems of the Order
MaxCreate == 1

\* the channel the ChannelItems and the CartItems of the operations are on
ItemChannels == {ChannelList[1]}

\* the (productId, variantId, quantity, channel) tuples a ChannelItem is made of
ChannelTuples ==
    {[productId |-> CartProduct.productId, variantId |-> CartProduct.variantId,
      quantity |-> CartProduct.quantity, channel |-> ch] : ch \in ItemChannels}

\* the ShopItem tuples the operations are given
ItemTuples == {t \in Tuples : t.productId = CartProduct.productId}

\* the user an entry names: none, or the user whose rows the other cannot read
ItemOwners == {"none"} \cup SeeOtherMatches

\* the input.create and output.create entries the operations are given
ShopEntries == {[tuple |-> t, user |-> u] : t \in ItemTuples, u \in ItemOwners}
ChannelEntries == {[tuple |-> t, user |-> "none"] : t \in ChannelTuples}

\* the input.create and output.create lists
InputCreates == SeqsUpTo(ShopEntries, MaxCreate)
OutputCreates == SeqsUpTo(ChannelEntries, MaxOutput)

\* rules.canManageMatches, the update filter of Match
CanManage(session, row) == session \in ManageMatches \/ row.user = session

\* rules.canReadOrders, the query filter of Order
CanReadOrder(session, row) == session \in SeeOtherOrders \/ row.user = session

\* parseInt(quantity) of an Int field
ParseInt(quantity) == quantity

\* duplicateMatch of upsertMatch: the first readable Match that has some
\* input among inputIds, as many inputs as inputIds has entries, and each
\* input among inputIds (0 when there is none)
DuplicateMatch(ms, session, inputIds) ==
    LET S == {k \in DOMAIN ms :
                 /\ CanRead(session, ms[k])
                 /\ ms[k].input \cap Range(inputIds) # {}
                 /\ Cardinality(ms[k].input) = Len(inputIds)
                 /\ \A id \in ms[k].input : id \in Range(inputIds)}
    IN  IF S = {} THEN 0 ELSE CHOOSE k \in S : \A j \in S : k <= j

\* upsertMatch: find or create the ShopItems and the ChannelItems, then
\* replace the output of the Match with these inputs or create the Match
UpsertMatch(session, create, outCreate) ==
    /\ UNCHANGED <<orderVars, runs, links, linkMode, orderRow, matchUpdate, adapterCall,
                   webhook, oauthVars>>
    /\ \E e \in {EnsureShopItems(NoneProcessed(shopItems), session, create)} :
       \E c \in {IF e.thrown THEN NoneProcessed(channelItems)
                 ELSE EnsureShopItems(NoneProcessed(channelItems), session, outCreate)} :
       \E dup \in {DuplicateMatch(matches, session, e.ids)} :
          /\ shopItems' = e.items
          /\ channelItems' = c.items
          /\ IF e.thrown \/ c.thrown
             THEN /\ matchResult' = "error"
                  /\ UNCHANGED <<matches, matchOutput>>
             ELSE IF dup # 0
             THEN IF CanManage(session, matches[dup])
                  THEN /\ matchResult' = "updated"
                       /\ matchOutput' = [matchOutput EXCEPT
                                             ![dup] = OutputChannels(c.items, c.ids)]
                       /\ UNCHANGED matches
                  ELSE /\ matchResult' = "error"
                       /\ UNCHANGED <<matches, matchOutput>>
             ELSE /\ Len(matches) < MaxMatches
                  /\ InsertMatch(matches, matchOutput, session, "none", e.ids, c.ids)

\* findShopItems of matchOrder: find or create a ShopItem of the session
\* user per lineItem, the created row naming no user
FindOrCreateShopItems(st, session, lineItems) ==
    EnsureShopItems(st, session,
        Unowned([n \in DOMAIN lineItems |->
                    [lineItems[n] EXCEPT !.quantity = ParseInt(lineItems[n].quantity)]]))

\* findChannelItems of matchOrder: find or create a ChannelItem of the
\* session user per CartItem of the Order, the created row naming no user
FindOrCreateChannelItems(st, session, cart) ==
    EnsureShopItems(st, session,
        Unowned([n \in DOMAIN cart |->
                    [productId |-> CartProduct.productId,
                     variantId |-> CartProduct.variantId,
                     quantity  |-> ParseInt(CartProduct.quantity),
                     channel   |-> cart[n].channel]]))

\* the sequence without its k-th entry
RemoveAt(s, k) == [n \in 1..(Len(s) - 1) |-> IF n < k THEN s[n] ELSE s[n + 1]]

\* the output relations after Match k is deleted
OutputsWithout(outs, k) ==
    [n \in DOMAIN outs |-> IF n < k THEN outs[n]
                           ELSE IF n + 1 \in DOMAIN outs THEN outs[n + 1]
                           ELSE << >>]

\* the CartItems of Order o, in id order
RECURSIVE OrderCart(_, _)
OrderCart(cart, o) ==
    IF cart = << >> THEN << >>
    ELSE (IF Head(cart).order = o THEN <<Head(cart)>> ELSE << >>) \o OrderCart(Tail(cart), o)

\* matchOrder: find or create the ShopItems of the lineItems and the
\* ChannelItems of the cartItems, delete the session user's Match with these
\* input tuples and as many inputs, create the Match of the Order
MatchOrder(session, o) ==
    /\ orderRow[o].created
    /\ UNCHANGED <<orderVars, runs, links, linkMode, orderRow, matchUpdate, adapterCall,
                   webhook, oauthVars>>
    /\ IF ~CanReadOrder(session, orderRow[o])
       THEN \* order is null and order.lineItems throws
            /\ matchResult' = "error"
            /\ UNCHANGED <<shopItems, channelItems, matches, matchOutput>>
       ELSE \E e \in {FindOrCreateShopItems(NoneProcessed(shopItems), session,
                                            orderRow[o].lineItems)} :
            \E c \in {IF e.thrown THEN NoneProcessed(channelItems)
                      ELSE FindOrCreateChannelItems(NoneProcessed(channelItems), session,
                                                    OrderCart(cartItems, o))} :
            \E existing \in {ExactMatch(matches, e.items, session, orderRow[o].lineItems)} :
               /\ shopItems' = e.items
               /\ channelItems' = c.items
               /\ IF e.thrown \/ c.thrown \/ (existing # 0 /\ session \notin ManageMatches)
                  THEN \* createOne failed, or Match.deleteOne is denied
                       /\ matchResult' = "error"
                       /\ UNCHANGED <<matches, matchOutput>>
                  ELSE IF existing # 0
                  THEN InsertMatch(RemoveAt(matches, existing),
                                   OutputsWithout(matchOutput, existing),
                                   session, session, e.ids, c.ids)
                  ELSE /\ Len(matches) < MaxMatches
                       /\ InsertMatch(matches, matchOutput, session, session, e.ids, c.ids)

\* an Order with lineItems and cartItems and the three flags off, and the
\* three operations in any order, while the Match table stays small
NextItems ==
    \/ \E o \in Orders, user \in Users, n \in 1..MaxCreate, ch \in ItemChannels :
          CreateOrder(o, user, SameLineItems(n), <<ch>>, FALSE, FALSE, FALSE)
    \/ /\ \/ \E session \in Users, create \in InputCreates, outCreate \in OutputCreates,
                findOne \in FindOneOutcomes :
                /\ findOne = "finds" \/ outCreate # << >>
                /\ CreateMatchWithOutput(session, "none", TRUE, << >>, create,
                                      << >>, outCreate, findOne)
          \/ \E session \in Users, create \in InputCreates, outCreate \in OutputCreates :
                UpsertMatch(session, create, outCreate)
          \/ \E session \in Users, o \in Orders : MatchOrder(session, o)
       /\ Len(matches') <= MaxItemMatches

SpecItems == InitCreate /\ [][NextItems]_vars

Fingerprint(row) == <<row.tuple, row.user>>

\* C28: after any sequence of Match create, upsertMatch and matchOrder, no
\* two ShopItems have the same (quantity, productId, variantId, shop, owner)
\* and no two ChannelItems the same (quantity, productId, variantId,
\* channel, owner).
C28_OneItemPerFingerprint ==
    /\ \A i, j \in DOMAIN shopItems :
          Fingerprint(shopItems[i]) = Fingerprint(shopItems[j]) => i = j
    /\ \A i, j \in DOMAIN channelItems :
          Fingerprint(channelItems[i]) = Fingerprint(channelItems[j]) => i = j

\* upsertMatch found every input.create entry in the table and replaced the
\* output of the Match that holds them
C28_Witness ==
    /\ matchResult = "updated"
    /\ shopItems # << >>
    /\ channelItems # << >>

-----------------------------------------------------------------------------
(* Properties of createCartItems *)

\* the Matches getMatches resolved for the Order: the exact match, or the
\* Match of every lineItem when the fallback found one for each (else none)
ResolvedMatches(o) ==
    LET row == orderRow[o]
        filt == ExactMatch(matches, shopItems, row.user, row.lineItems)
        found == FallbackOutput(matches, shopItems, row.user, row.lineItems)
    IN  IF filt # 0 THEN <<filt>>
        ELSE IF Len(row.lineItems) > 1 /\ \A n \in DOMAIN found : found[n] # 0
        THEN found
        ELSE << >>

\* C29: for each output ChannelItem of a resolved Match exactly one CartItem
\* is created on the Order, on the ChannelItem's channel; unless the
\* pipeline ran, its error is empty or begins with PRICE_CHANGE.
C29_OneCartItemPerOutput ==
    \A o \in Orders :
        MatchResolved(o) =>
            LET outs == CartSteps(ResolvedMatches(o), matchOutput)
                cart == OrderCart(cartItems, o)
            IN  /\ Len(cart) = Len(outs)
                /\ \A n \in DOMAIN cart :
                      /\ cart[n].channel = outs[n]
                      /\ ~orderRow[o].processOrder =>
                            cart[n].error \in {"", PriceChangePrefix \o "Price changed"}

-----------------------------------------------------------------------------
(* The creation hook and processOrder (specification SpecHook): Links or a *)
(* Match are set up, then the Order is created with any status and flags   *)

\* Order create with data.status given
CreateOrderAs(o, status, user, lineItems, initialCart, linkOrder, matchOrder, processOrder) ==
    /\ InsertOrder(o, status, user, lineItems, initialCart, linkOrder, matchOrder,
                   processOrder)
    /\ UNCHANGED <<runs, matchVars, links, linkMode, matchOutput, adapterCall, webhook, oauthVars>>

\* the Links of the Shop when the Order is created
MaxHookLinks == 1

NextHook ==
    \/ \E ch \in ItemChannels, admits \in BOOLEAN :
          Len(links) < MaxHookLinks /\ CreateLink(ch, admits)
    \/ \E create \in SeqsUpTo(ItemTuples, MaxCreate) :
          Len(matches) < MaxItemMatches /\ ResolveCreateMatch(create)
    \/ \E k \in 1..MaxItemMatches, out \in SeqsUpTo(ItemChannels, MaxOutput) :
          UpdateMatchOutput(k, out)
    \/ \E o \in Orders, status \in Statuses, n \in 0..MaxCreate,
          initialCart \in {<< >>} \cup {<<ch>> : ch \in ItemChannels},
          linkOrder \in BOOLEAN, matchOrder \in BOOLEAN, processOrder \in BOOLEAN :
          CreateOrderAs(o, status, "u1", SameLineItems(n), initialCart,
                        linkOrder, matchOrder, processOrder)

SpecHook == InitCreate /\ [][NextHook]_vars

\* the Order was created with processOrder off: no create-purchase call was
\* made and every CartItem of the Order is unplaced
NotPlacedByHook(o) ==
    /\ log = << >>
    /\ \A i \in ItemsOf(cartItems, o) : Unplaced(cartItems[i])

-----------------------------------------------------------------------------
(* The routing path of the creation hook *)

\* the errors the Match Resolver leaves on the Order
MatchErrors ==
    {SomeNotMatched, NoMatchesFound, MatchFailedPrefix \o UndefinedOutput,
     MatchFailedPrefix \o ProductError}

\* the Links an Order is routed to when a Link matches: the first in
\* sequential mode, every one in simultaneous mode
RoutedLinks == IF linkMode = "sequential" THEN 1 ELSE Len(links)

\* C31: Order creation runs at most one routing path: the Link Resolver if
\* linkOrder is set and the Shop has a Link; otherwise the Match Resolver if
\* matchOrder is set; otherwise the pipeline if the Order has CartItems and
\* processOrder is set. When no Link matches, the Match Resolver and the
\* pipeline are not run.
C31_OneRoutingPath ==
    \A o \in Orders :
        orderRow[o].created =>
            LET row == orderRow[o]
                given == Len(row.initialCart)
                made == Len(OrderCart(cartItems, o)) - given
            IN  IF row.linkOrder /\ Len(links) > 0
                THEN /\ row.error \in {"", NoMatchingLink}
                     /\ row.error = NoMatchingLink =>
                           /\ made = 0
                           /\ log = << >>
                           /\ orderStatus[o] = row.status
                     /\ row.error = "" => made = Len(row.lineItems) * RoutedLinks
                ELSE IF row.matchOrder
                THEN /\ row.error \in {""} \cup MatchErrors
                     /\ row.error = "" =>
                           made = Len(CartSteps(ResolvedMatches(o), matchOutput))
                ELSE /\ row.error = ""
                     /\ made = 0
                     /\ (log # << >>) <=> (given > 0 /\ row.processOrder)

\* an Order with linkOrder, matchOrder and processOrder set and a CartItem
\* of its own was created while the Shop had a Link and the user a Match
\* with an output that resolves it; no Link matched and nothing else ran
C31_Witness ==
    \E o \in Orders :
        /\ orderRow[o].created
        /\ orderRow[o].linkOrder /\ orderRow[o].matchOrder /\ orderRow[o].processOrder
        /\ Len(links) > 0
        /\ orderRow[o].initialCart # << >>
        /\ CartSteps(ResolvedMatches(o), matchOutput) # << >>
        /\ orderRow[o].error = NoMatchingLink
        /\ Len(OrderCart(cartItems, o)) = Len(orderRow[o].initialCart)
        /\ log = << >>

-----------------------------------------------------------------------------
(* The calls to the Shop's platform: addCartToPlatformOrder after the       *)
(* pipeline's recount found nothing left to place, addTracking in the       *)
(* TrackingDetail hook                                                      *)

\* how a call of a shop adapter function ends
PlatformOutcomes == {"ok", "throws"}

\* what the TrackingDetail hook does with addTrackingFunction: "none" when
\* the platform has no such function, else a call that ends one way or the other
TrackingOutcomes == {"none"} \cup PlatformOutcomes

\* the create-purchase outcomes of the runs that reach the platform call: a
\* placed purchase, a returned error, a throw
PlatformRunOutcomes ==
    {out \in Outcomes :
        \/ out.purchaseId = "p1" /\ out.error = ""
        \/ ~out.throws /\ out.purchaseId = "" /\ out.error # ""
        \/ out.throws /\ out.message # ""}

PlatformEvent(o, ch, res) ==
    [kind |-> "addCartToPlatformOrder", order |-> o, channel |-> ch, items |-> {},
     status |-> res, count |-> 0]

TrackingEvent(o, res) ==
    [kind |-> "addTracking", order |-> o, channel |-> "", items |-> {},
     status |-> res, count |-> 0]

\* how placeMultipleOrders ended: it returned ("ok") or an error left it
ReturnEvent(o, res) ==
    [kind |-> "return", order |-> o, channel |-> "", items |-> {},
     status |-> res, count |-> 0]

\* PlaceChannelsOnPlatform with no try/catch around addCartToPlatformOrder2
RECURSIVE PlaceChannelsOnPlatformUncaught(_, _, _, _, _, _)
PlaceChannelsOnPlatformUncaught(st, o, snapshot, chs, out, platform) ==
    IF chs = << >> THEN st
    ELSE LET ch  == Head(chs)
             ids == snapshot[ch]
         IN  IF ids = {}
             THEN PlaceChannelsOnPlatformUncaught(st, o, snapshot, Tail(chs), out, platform)
             ELSE LET cart1 == ApplyOutcome(st.cart, ids, out[ch])
                      n     == CartCount(cart1, o)
                      s1    == StatusAfterCount(n)
                      st1   == [cart   |-> cart1,
                                status |-> [st.status EXCEPT ![o] = s1],
                                log    |-> st.log \o <<CallEvent(o, ch, ids),
                                                       StatusEvent(o, ch, s1, n)>>
                                              \o (IF n = 0
                                                  THEN <<PlatformEvent(o, ch, platform[ch])>>
                                                  ELSE << >>),
                                thrown |-> n = 0 /\ platform[ch] = "throws"]
                  IN  IF st1.thrown
                      THEN st1
                      ELSE PlaceChannelsOnPlatformUncaught(st1, o, snapshot, Tail(chs),
                                                           out, platform)

\* The loop over cartChannels of one Order with the platform call: after
\* the recount found 0, status AWAITING is written and
\* addCartToPlatformOrder2 is called inside try/catch; the catch only warns.
RECURSIVE PlaceChannelsOnPlatform(_, _, _, _, _, _)
PlaceChannelsOnPlatform(st, o, snapshot, chs, out, platform) ==
    IF chs = << >> THEN st
    ELSE LET ch  == Head(chs)
             ids == snapshot[ch]
         IN  IF ids = {}
             THEN PlaceChannelsOnPlatform(st, o, snapshot, Tail(chs), out, platform)
             ELSE LET cart1 == ApplyOutcome(st.cart, ids, out[ch])
                      n     == CartCount(cart1, o)
                      s1    == StatusAfterCount(n)
                  IN  PlaceChannelsOnPlatform(
                        [cart   |-> cart1,
                         status |-> [st.status EXCEPT ![o] = s1],
                         log    |-> st.log \o <<CallEvent(o, ch, ids),
                                                StatusEvent(o, ch, s1, n)>>
                                       \o (IF n = 0
                                           THEN <<PlatformEvent(o, ch, platform[ch])>>
                                           ELSE << >>),
                         thrown |-> FALSE],
                        o, snapshot, Tail(chs), out, platform)

\* the channels of the Order that have something to place
PlacedChannels(cart, o) == {ch \in Channels : ChannelCartItems(cart, o, ch) # {}}

\* mutation placeOrders(ids) with ids = [o], the platform call included
PlaceOrdersOnPlatform(o) ==
    \E out \in [PlacedChannels(cartItems, o) -> PlatformRunOutcomes],
       platform \in [PlacedChannels(cartItems, o) -> PlatformOutcomes] :
        \E r \in {PlaceChannelsOnPlatform(
                    [cart |-> cartItems, status |-> orderStatus, log |-> << >>,
                     thrown |-> FALSE],
                    o, [ch \in Channels |-> ChannelCartItems(cartItems, o, ch)],
                    ChannelList, out, platform)} :
            /\ cartItems' = r.cart
            /\ orderStatus' = r.status
            /\ log' = r.log \o <<ReturnEvent(o, IF r.thrown THEN "throws" ELSE "ok")>>
            /\ UNCHANGED <<runs, matchVars, createVars, adapterCall, webhook, oauthVars>>

\* TrackingHookStatus that is left by a throwing addShopTracking2
TrackingHookStatusUncaught(cart, status, o, tracking) ==
    IF tracking # "throws" /\ CompletesOrder(cart, status, o)
    THEN [status EXCEPT ![o] = "COMPLETE"]
    ELSE status

\* TrackingDetail.hooks.afterOperation after the TrackingDetail was read:
\* the addShopTracking2 call inside try/catch, then the recompute
TrackingHookStatus(cart, status, o, tracking) ==
    IF CompletesOrder(cart, status, o)
    THEN [status EXCEPT ![o] = "COMPLETE"]
    ELSE status

\* TrackingDetail create with cartItems connected to S, and its
\* afterOperation hook with the platform call
CreateTrackingDetailOnPlatform(S, tracking) ==
    LET cart1 == [i \in DOMAIN cartItems |->
                    IF i \in S THEN [cartItems[i] EXCEPT !.tracked = TRUE]
                    ELSE cartItems[i]]
    IN  /\ cartItems' = cart1
        /\ IF S = {}
           THEN orderStatus' = orderStatus /\ log' = << >>
           ELSE LET o == cart1[FirstItem(S)].order
                IN  /\ orderStatus' = TrackingHookStatus(cart1, orderStatus, o, tracking)
                    /\ log' = <<TrackingEvent(o, tracking)>>
        /\ UNCHANGED <<runs, matchVars, createVars, adapterCall, webhook, oauthVars>>

NextPlatform ==
    \/ \E o \in Orders : PlaceOrdersOnPlatform(o)
    \/ \E o \in Orders, ch \in Channels : AddToCart(o, ch)
    \/ \E pid \in PurchaseIds \cup {""} : CancelPurchase(pid)
    \/ \E S \in SUBSET ItemIds(cartItems), tracking \in TrackingOutcomes :
          CreateTrackingDetailOnPlatform(S, tracking)

SpecPlatform == Init /\ [][NextPlatform]_vars

\* a failed addCartToPlatformOrder call is in the log at position i
FailedPlatformCall(l, i) ==
    /\ i \in DOMAIN l
    /\ l[i].kind = "addCartToPlatformOrder"
    /\ l[i].status = "throws"

\* C32: if the add-to-platform-order call fails after all of an Order's
\* items are placed, the pipeline run returns normally, the Order stays
\* AWAITING and every CartItem is as the run's create-purchase calls left it.
C32_PlatformFailureNotPropagated ==
    [][\A i \in DOMAIN log' :
          FailedPlatformCall(log', i) =>
             LET o == log'[i].order
             IN  /\ log'[Len(log')] = ReturnEvent(o, "ok")
                 /\ orderStatus'[o] = "AWAITING"
                 /\ CartCount(cartItems', o) = 0
                 /\ \E out \in [PlacedChannels(cartItems, o) -> PlatformRunOutcomes] :
                       cartItems' = PlaceOneOrder([cart |-> cartItems,
                                                   status |-> orderStatus,
                                                   log |-> << >>], o, out).cart]_vars

\* a run placed the Order's items, the platform call failed, the run
\* returned and the Order is AWAITING
C32_Witness ==
    /\ \E i \in DOMAIN log : FailedPlatformCall(log, i)
    /\ log[Len(log)].kind = "return" /\ log[Len(log)].status = "ok"
    /\ \E o \in Orders :
          /\ orderStatus[o] = "AWAITING"
          /\ ItemsOf(cartItems, o) # {}
          /\ \A i \in ItemsOf(cartItems, o) : cartItems[i].purchaseId # ""

\* the hook of a created TrackingDetail ran for Order o and its addTracking
\* call failed
FailedTrackingCall(l, o) ==
    l = <<TrackingEvent(o, "throws")>>

\* C33: if the add-tracking call fails while a created TrackingDetail is
\* handled, the recompute still runs: an AWAITING Order whose non-cancelled
\* CartItems all have tracking advances to COMPLETE.
C33_TrackingFailureStillCompletes ==
    [][\A o \in Orders :
          (/\ FailedTrackingCall(log', o)
           /\ orderStatus[o] = "AWAITING"
           /\ UntrackedItems(cartItems', o) = {})
          => orderStatus'[o] = "COMPLETE"]_vars

\* the addTracking call failed and the Order, AWAITING before with a placed
\* CartItem, is COMPLETE
C33_Witness ==
    \E o \in Orders :
        /\ FailedTrackingCall(log, o)
        /\ orderStatus[o] = "COMPLETE"
        /\ \E i \in ItemsOf(cartItems, o) :
              cartItems[i].tracked /\ cartItems[i].purchaseId # ""

-----------------------------------------------------------------------------
(* Match update: the update branch of the resolveInput hook                *)

MaxUpdateMatches == 2
MaxUpdateItems == 2

\* the input relation after Prisma applied disconnect and connect
InputAfterUpdate(input, connect, disconnect) ==
    (input \ disconnect) \cup Range(connect)

\* combinedInputs.map(id): the current inputs that are not disconnected,
\* then the connected ones
CombinedInputIds(input, connect, disconnect) ==
    SeqOfSet(input \ disconnect) \o connect

\* Match update with data.input = { connect, disconnect } by a signed-in
\* user on a Match the update filter lets through. ShopItem.findOne of a
\* connected id the session cannot read answers null, whose id is then read.
UpdateMatchInput(session, k, connect, disconnect) ==
    /\ k \in DOMAIN matches
    /\ CanManage(session, matches[k])
    /\ CanRead(session, matches[k])
    /\ Range(connect) \cap disconnect = {}
    /\ LET thrown == \E n \in DOMAIN connect : ~CanRead(session, shopItems[connect[n]])
           rejected == CheckForDuplicate(matches, session,
                          CombinedInputIds(matches[k].input, connect, disconnect))
       IN  /\ matchResult' = IF thrown THEN "error"
                             ELSE IF rejected THEN "duplicate" ELSE "updated"
           /\ matches' = IF thrown \/ rejected THEN matches
                         ELSE [matches EXCEPT
                                 ![k].input = InputAfterUpdate(@, connect, disconnect)]
           /\ matchUpdate' = [kind |-> "input", match |-> k, before |-> matches[k].input,
                              connect |-> connect, disconnect |-> disconnect,
                              result |-> matchResult']
    /\ UNCHANGED <<orderVars, runs, shopItems, channelItems, createVars, adapterCall,
                   webhook, oauthVars>>

NextUpdate ==
    \/ \E session \in Users :
         \E create \in SeqsUpTo(Tuples, MaxInput) \ {<< >>} :
            /\ Len(matches) < MaxUpdateMatches
            /\ CreateMatch(session, "none", TRUE, << >>, create)
            /\ Len(shopItems') <= MaxUpdateItems
    \/ \E session \in Users, k \in 1..MaxUpdateMatches :
         \E connect \in SeqsUpTo(DOMAIN shopItems, MaxInput),
            disconnect \in {{}} \cup {{i} : i \in DOMAIN shopItems} :
                UpdateMatchInput(session, k, connect, disconnect)

SpecUpdate == Init /\ [][NextUpdate]_vars

\* C34: an update of a Match's input set is rejected if and only if
\* another Match has an input set identical to the one that would result
\* (the current inputs minus the disconnected plus the connected ones).
C34_UpdateRejectedIffOtherMatchHasSet ==
    (matchUpdate.kind = "input" /\ matchUpdate.result # "error") =>
        ((matchUpdate.result = "duplicate")
         <=> \E j \in DOMAIN matches :
                /\ j # matchUpdate.match
                /\ matches[j].input = InputAfterUpdate(matchUpdate.before,
                                                       matchUpdate.connect,
                                                       matchUpdate.disconnect))

-----------------------------------------------------------------------------
(* The Salesforce OAuth context store and the clock                        *)

\* the context a caller stores at time t: its domain names the instant, so
\* that a returned context tells when it was stored
ContextAt(t) == "ctx@" \o ToString(t)

StoredAt(context) == CHOOSE t \in 0..MaxNow : ContextAt(t) = context

NextContext ==
    \/ \E key \in Keys \cup {""}, alias \in Keys \cup {""} :
          StoreSalesforceOAuthContext(key, ContextAt(now), alias)
    \/ \E key \in Keys \cup {""} : ConsumeSalesforceOAuthContext(key)
    \/ Tick

SpecContext == Init /\ [][NextContext]_vars

\* C35: consumeSalesforceOAuthContext does not return an entry whose
\* time-to-live (that of a PKCE verifier stored without ttlMs) has elapsed
\* since it was stored.
C35_ContextNotReturnedAfterTtl ==
    [][(/\ oauthCall' # oauthCall
        /\ oauthCall'.kind = "consumeSalesforceOAuthContext"
        /\ oauthCall'.result # Undefined)
       => now < StoredAt(oauthCall'.result) + PKCE_STORE_TTL_MS]_vars

-----------------------------------------------------------------------------
(* Placed CartItems under interleaved pipeline runs *)

\* C36: once a CartItem has a non-empty purchaseId, no step of a pipeline
\* run, a run interleaved with another on the same Order included, changes
\* that CartItem's purchaseId or url.
C36_PlacedItemNeverOverwritten ==
    [][\A i \in DOMAIN cartItems :
          cartItems[i].purchaseId # "" =>
             /\ cartItems'[i].purchaseId = cartItems[i].purchaseId
             /\ cartItems'[i].url = cartItems[i].url]_vars

-----------------------------------------------------------------------------
(* AWAITING and the CartItems still to be tracked *)

\* C37: between operations, an Order in AWAITING has at least one
\* non-cancelled CartItem without a TrackingDetail, in whatever order
\* TrackingDetails were created and CartItems cancelled.
C37_AwaitingHasUntrackedItem ==
    \A o \in Orders :
        orderStatus[o] = "AWAITING" => UntrackedItems(cartItems, o) # {}

-----------------------------------------------------------------------------
(* COMPLETE and the operations that follow it *)

\* C39: the status of a COMPLETE Order never changes to PENDING or
\* AWAITING: after COMPLETE the only status change is to CANCELLED.
C39_CompleteOnlyToCancelled ==
    [][\A o \in Orders :
          orderStatus[o] = "COMPLETE" =>
             orderStatus'[o] \in {"COMPLETE", "CANCELLED"}]_vars

-----------------------------------------------------------------------------
(* Retried placement: the pipeline invoked again and again *)

\* what create-purchase does in the runs of the retried pipeline: it places
\* the purchase, returns an error, or throws
RetryOutcomes == PlatformRunOutcomes

\* mutation placeOrders(ids) with ids = [o], invoked again
PlaceOrdersRetried(o) ==
    \E out \in [PlacedChannels(cartItems, o) -> RetryOutcomes] :
        \E r \in {PlaceOneOrder([cart |-> cartItems, status |-> orderStatus,
                                  log |-> << >>], o, out)} :
            /\ cartItems' = r.cart
            /\ orderStatus' = r.status
            /\ log' = r.log
            /\ UNCHANGED <<runs, matchVars, createVars, adapterCall, webhook, oauthVars>>

\* a pipeline run on Order o all of whose create-purchase calls place their
\* CartItems
PlaceOrdersSucceeding(o) ==
    /\ PlaceOrdersRetried(o)
    /\ \A i \in AttemptedItems(log') : cartItems'[i].purchaseId # ""

\* the lifecycle of an Order that is never cancelled
NextRetry ==
    \/ \E o \in Orders : PlaceOrdersRetried(o)
    \/ \E o \in Orders, ch \in Channels : AddToCart(o, ch)
    \/ \E pid \in PurchaseIds \cup {""} : CancelPurchase(pid)

\* the pipeline is invoked again as long as it has something to place, and
\* create-purchase does not fail for ever
SpecRetry ==
    /\ Init
    /\ [][NextRetry]_vars
    /\ \A o \in Orders : WF_vars(PlaceOrdersSucceeding(o))

\* C38: an Order that has a CartItem to place and is never cancelled
\* eventually is AWAITING when the pipeline is invoked repeatedly and
\* create-purchase eventually succeeds: every run attempts again each
\* CartItem that is still unplaced, earlier error or not, and a CartItem the
\* run places ends it without error.
C38_RetryReachesAwaiting ==
    /\ \A o \in Orders :
          (CartCount(cartItems, o) > 0) ~> (orderStatus[o] = "AWAITING")
    /\ [][log' # << >> =>
             \A i \in ItemsOf(cartItems, log'[1].order) :
                /\ Unplaced(cartItems[i]) => i \in AttemptedItems(log')
                /\ (i \in AttemptedItems(log') /\ cartItems'[i].purchaseId # "")
                      => cartItems'[i].error = ""]_vars

\* a run placed the last unplaced CartItem of an Order another CartItem of
\* which an earlier run had placed, and the Order is AWAITING
C38_Witness ==
    \E o \in Orders :
        /\ orderStatus[o] = "AWAITING"
        /\ \E i \in AttemptedItems(log) :
              /\ cartItems[i].order = o
              /\ cartItems[i].purchaseId # "" /\ cartItems[i].error = ""
        /\ \E j \in ItemsOf(cartItems, o) \ AttemptedItems(log) :
              cartItems[j].purchaseId # ""
====
